---- MODULE Spec2Model ----
(***************************************************************************)
(* Variant selection engine of plugin.video.streammex                      *)
(* (resources/lib/playlist_source.py, class PlaylistCoordinator).          *)
(*                                                                         *)
(* Every plugin invocation is a process that constructs a                  *)
(* PlaylistCoordinator (which loads play_state.json), calls get_play_url,  *)
(* get_manual_play_url or set_preferred_variant, and exits.  All processes *)
(* share the one play_state.json of the profile directory.                 *)
(***************************************************************************)
EXTENDS Integers, Sequences, FiniteSets, TLC

VARIABLES
    catalog,        \* channel_id -> variants (urls, in first-seen order)
    prefer_quality, \* setting prefer_quality_sort
    clock,          \* datetime.utcnow().timestamp(), whole seconds
    file,           \* content of play_state.json
    pc,             \* per process: "idle", "ready", "writing", "crashed"
    play_indices,   \* per process: self._play_indices
    play_meta,      \* per process: self._play_meta
    ret,            \* per process: value returned by the last call
    call,           \* per process: the last call it made (history)
    last,           \* the last call of any process that stored an index
    build,          \* the loaded entries, self._channels and the M3U files
    sources,        \* sources.json and what the last source_manager call returned
    load,           \* the settings, the sources and the entries loaded from them
    m3u,            \* an M3U text, the entries parsed from it, a catalog written
    epg,            \* the EPG file and the name map cache of epg_manager
    streak          \* the URLs of the get_play_url calls in quick succession (history)

\* the state outside the selection engine and the channel list
aux == <<sources, load, m3u, epg, streak>>

vars == <<catalog, prefer_quality, clock, file, pc, play_indices, play_meta,
          ret, call, last, build, aux>>

----------------------------------------------------------------------------
(* Bounds of the model *)

\* first and last instant of the model
MinClock == 100
MaxClock == 120

Procs == {"p1", "p2"}

\* Python's None as the value of last_channel
None == "<None>"

\* Python's None as a returned URL
NoUrl == << >>

----------------------------------------------------------------------------
(* Stream URLs, as character sequences, and the quality heuristic *)

U_low   == <<"a", "/", "l", "o", "w">>
U_HD    == <<"b", "/", "H", "D">>
U_fhd   == <<"c", "/", "f", "h", "d">>
U_plain == <<"e">>

Lower(c) ==
    CASE c = "H" -> "h"
      [] c = "D" -> "d"
      [] c = "F" -> "f"
      [] c = "K" -> "k"
      [] c = "U" -> "u"
      [] OTHER   -> c

\* str.lower()
LowerUrl(u) == [i \in 1..Len(u) |-> Lower(u[i])]

\* `token in url`
Contains(u, tok) ==
    \E i \in 1..(Len(u) - Len(tok) + 1) : SubSeq(u, i, i + Len(tok) - 1) = tok

\* url.endswith(tok)
EndsWith(u, tok) ==
    /\ Len(u) >= Len(tok)
    /\ SubSeq(u, Len(u) - Len(tok) + 1, Len(u)) = tok

AnyToken(u, toks) == \E t \in toks : Contains(u, t)

LowTokens == { <<"m","o","b","i","l","e">>, <<"l","o","w">>,
               <<"l","o","w","r","e","s">>, <<"/","s","d","/">>,
               <<"_","s","d">>, <<"-","s","d">> }
UhdTokens == { <<"2","1","6","0">>, <<"4","k">>, <<"u","h","d">> }
FhdTokens == { <<"1","0","8","0">>, <<"f","h","d">> }
HdTokens  == { <<"7","2","0">>, <<"h","d">> }
AudioTokens == { <<".","m","p","3">>, <<"r","a","d","i","o","=">> }

\* the score of get_play_url._quality_score before the final negation
Score(url) ==
    LET u == LowerUrl(url) IN
      (IF AnyToken(u, LowTokens) THEN -15 ELSE 0)
    + (IF AnyToken(u, UhdTokens) THEN 40 ELSE 0)
    + (IF AnyToken(u, FhdTokens) THEN 30 ELSE 0)
    + (IF AnyToken(u, HdTokens) THEN 20 ELSE 0)
    + (IF Contains(u, <<"4","8","0">>) THEN 5 ELSE 0)
    + (IF \/ EndsWith(u, <<".","m","3","u","8">>)
          \/ Contains(u, <<"/","h","l","s">>)
          \/ Contains(u, <<"p","l","a","y","l","i","s","t",".","m","3","u","8">>)
       THEN 10 ELSE 0)
    + (IF AnyToken(u, AudioTokens) THEN -5 ELSE 0)

\* the sort key: return -score
_quality_score(url) == 0 - Score(url)

\* sorted(variants, key=_quality_score): stable, ascending in the key.
\* The element at rank r is the one with exactly r-1 elements before it in
\* (key, original position) order.
Before(vs, i, j) ==
    \/ _quality_score(vs[i]) < _quality_score(vs[j])
    \/ _quality_score(vs[i]) = _quality_score(vs[j]) /\ i < j

SortedByQuality(vs) ==
    [r \in 1..Len(vs) |->
        vs[CHOOSE j \in 1..Len(vs) :
              Cardinality({i \in 1..Len(vs) : Before(vs, i, j)}) = r - 1]]

----------------------------------------------------------------------------
(* JSON values, as json.loads yields them.  t is the Python type; n is the *)
(* number (the length for a list, 0/1 for a bool); s the string; o the     *)
(* members of an object.  Numbers are whole: 95.0 is JFloat(MinClock - 1).           *)

NoMembers == [k \in {} |-> 0]

JNull     == [t |-> "null",  n |-> 0, s |-> "", o |-> NoMembers]
JBool(b)  == [t |-> "bool",  n |-> IF b THEN 1 ELSE 0, s |-> "", o |-> NoMembers]
JInt(k)   == [t |-> "int",   n |-> k, s |-> "", o |-> NoMembers]
JFloat(k) == [t |-> "float", n |-> k, s |-> "", o |-> NoMembers]
JStr(x)   == [t |-> "str",   n |-> 0, s |-> x,  o |-> NoMembers]
JList(l)  == [t |-> "list",  n |-> l, s |-> "", o |-> NoMembers]
JObj(f)   == [t |-> "obj",   n |-> 0, s |-> "", o |-> f]

\* bool(v), as in `v or {}`
Truthy(v) ==
    CASE v.t = "null" -> FALSE
      [] v.t \in {"bool", "int", "float", "list"} -> v.n # 0
      [] v.t = "str" -> v.s # ""
      [] v.t = "obj" -> DOMAIN v.o # {}

\* isinstance(v, dict)
IsDict(v) == v.t = "obj"

\* dict.get(key): None when the key is absent
Get(d, key) == IF key \in DOMAIN d.o THEN d.o[key] ELSE JNull

\* the strings int() and float() parse, with their values
Numerals == [x \in {"0", "1", "2"} |-> CASE x = "0" -> 0 [] x = "1" -> 1 [] x = "2" -> 2]

\* int(v) / float(v) return instead of raising TypeError or ValueError
NumOk(v) ==
    \/ v.t \in {"bool", "int", "float"}
    \/ v.t = "str" /\ v.s \in DOMAIN Numerals

NumVal(v) == IF v.t = "str" THEN Numerals[v.s] ELSE v.n

----------------------------------------------------------------------------
(* play_state.json: k is "missing", "empty", "truncated" (a proper prefix  *)
(* of a JSON document), "nonjson" or "json" (then v is the document).      *)

(* len is the number of characters in the file, kept for the files the    *)
(* program writes (two writers that overlap overlay their texts).          *)

FMissing   == [k |-> "missing",   v |-> JNull, len |-> 0]
FEmpty     == [k |-> "empty",     v |-> JNull, len |-> 0]
FTruncated == [k |-> "truncated", v |-> JNull, len |-> 1]
FNonJson   == [k |-> "nonjson",   v |-> JNull, len |-> 1]
FJson(v)   == [k |-> "json",      v |-> v,     len |-> 1]

EmptyIndices == [k \in {} |-> 0]
DefaultMeta  == [last_channel |-> None, last_time |-> 0]

\* for k, v in d.items(): try: self._play_indices[str(k)] = int(v)
\*                        except Exception: continue
IndicesFrom(d) ==
    [k \in {x \in DOMAIN d.o : NumOk(d.o[x])} |-> NumVal(d.o[k])]

\* meta.get("last_channel") / meta.get("last_time") on a dict meta
MetaFrom(meta) ==
    LET last_ch   == Get(meta, "last_channel")
        last_time == Get(meta, "last_time")
    IN  [last_channel |-> IF last_ch.t = "str" /\ last_ch.s # ""
                          THEN last_ch.s ELSE None,
         last_time    |-> IF ~Truthy(last_time) THEN 0
                          ELSE IF NumOk(last_time) THEN NumVal(last_time)
                          ELSE 0]

Loaded(raised, indices, meta) ==
    [raised |-> raised, indices |-> indices, meta |-> meta]

\* _load_play_state without the try/except around json.loads
LoadUncaughtJsonError(f) ==
    IF f.k \in {"missing", "empty"}
    THEN Loaded(FALSE, EmptyIndices, DefaultMeta)
    ELSE IF f.k # "json"
    THEN Loaded(TRUE, EmptyIndices, DefaultMeta)
    ELSE Loaded(FALSE, IndicesFrom(f.v), DefaultMeta)

\* _load_play_state: the state a new PlaylistCoordinator holds after
\* reading file f, and whether the call raised
_load_play_state(f) ==
    IF f.k \in {"missing", "empty"}          \* if not raw: return
    THEN Loaded(FALSE, EmptyIndices, DefaultMeta)
    ELSE IF f.k # "json"                     \* json.loads raised
    THEN Loaded(FALSE, EmptyIndices, DefaultMeta)
    ELSE LET payload == f.v IN
      IF IsDict(payload)
         /\ ("indices" \in DOMAIN payload.o \/ "meta" \in DOMAIN payload.o)
      THEN LET indices == IF Truthy(Get(payload, "indices"))
                          THEN Get(payload, "indices") ELSE JObj(NoMembers)
               meta    == IF Truthy(Get(payload, "meta"))
                          THEN Get(payload, "meta") ELSE JObj(NoMembers)
               loaded  == IF IsDict(indices) THEN IndicesFrom(indices)
                          ELSE EmptyIndices
           IN  IF IsDict(meta)
               THEN Loaded(FALSE, loaded, MetaFrom(meta))
               ELSE Loaded(TRUE, loaded, DefaultMeta)  \* meta.get: AttributeError
      ELSE IF IsDict(payload)
      THEN Loaded(FALSE, IndicesFrom(payload), DefaultMeta)
      ELSE Loaded(FALSE, EmptyIndices, DefaultMeta)

\* Dump that writes the indices only, in the older flat format
DumpIndicesOnly(indices, meta) ==
    JObj([c \in DOMAIN indices |-> JInt(indices[c])])

\* json.dumps({"indices": self._play_indices, "meta": self._play_meta})
Dump(indices, meta) ==
    JObj([key \in {"indices", "meta"} |->
        IF key = "indices"
        THEN JObj([c \in DOMAIN indices |-> JInt(indices[c])])
        ELSE JObj([m \in {"last_channel", "last_time"} |->
                IF m = "last_channel"
                THEN (IF meta.last_channel = None THEN JNull
                      ELSE JStr(meta.last_channel))
                ELSE JFloat(meta.last_time)])])

\* number of characters json.dumps writes for an integer
Digits(k) ==
    LET a == IF k < 0 THEN 0 - k ELSE k IN
    (IF k < 0 THEN 1 ELSE 0) + (IF a < 10 THEN 1 ELSE IF a < 100 THEN 2 ELSE 3)

RECURSIVE SumOver(_, _)
SumOver(S, f) ==
    IF S = {} THEN 0
    ELSE LET x == CHOOSE y \in S : TRUE IN f[x] + SumOver(S \ {x}, f)

\* len(json.dumps(payload)), e.g. for
\* {"indices": {"rtl": 0}, "meta": {"last_channel": "rtl", "last_time": 105.0}}
DumpLen(indices, meta) ==
    LET keys == DOMAIN indices
        item == [c \in keys |-> Len(c) + 4 + Digits(indices[c])]
        seps == IF keys = {} THEN 0 ELSE 2 * (Cardinality(keys) - 1)
        ch   == IF meta.last_channel = None THEN 4
                ELSE Len(meta.last_channel) + 2
    IN  13 + SumOver(keys, item) + seps + 28 + ch + 15 + Digits(meta.last_time) + 2 + 2

----------------------------------------------------------------------------
(* Catalogs (the channels get_channels returns) and the inputs of calls *)

CatFull ==
    [c \in {"rtl", "tv2"} |->
        IF c = "rtl" THEN <<U_low, U_fhd, U_HD>> ELSE <<U_plain>>]

\* after a rebuild in which "tv2" disappeared and "rtl" lost a variant
CatShrunk == [c \in {"rtl"} |-> <<U_low, U_fhd>>]

Catalogs == {CatFull, CatShrunk}

\* the resolution markers _quality_score looks for, as URLs carry them
Markers ==
    { <<"4","8","0">>, <<"7","2","0">>, <<"H","D">>, <<"1","0","8","0">>,
      <<"F","H","D">>, <<"2","1","6","0">>, <<"4","K">>, <<"U","H","D">> }

\* a stream URL that carries marker m
MarkerUrl(m) == <<"x", "/">> \o m

\* catalogs of one channel with two variants whose URLs differ in the
\* resolution marker only
RankCatalogs ==
    { [c \in {"rtl"} |-> <<MarkerUrl(m1), MarkerUrl(m2)>>] :
        m1 \in Markers, m2 \in Markers }

\* the variant lists of all catalogs, each with its ranking (the ranking is
\* a pure function of the list, evaluated once per list)
VariantLists ==
    UNION {{c[cid] : cid \in DOMAIN c} : c \in Catalogs \cup RankCatalogs}
Ranked == [vs \in VariantLists |-> SortedByQuality(vs)]

\* candidates of get_play_url / set_preferred_variant
Candidates(vs, pq) == IF pq THEN Ranked[vs] ELSE vs

\* channel ids a caller asks for; "" is the id `not channel_id` rejects
ReqIds == {"rtl", "tv2", ""}

\* v_index values a caller passes
VInputs == {JInt(-1), JInt(0), JInt(1), JInt(5), JStr("abc")}

\* the instants at which the model looks at the clock: two calls can be
\* 0, 1, 19 or 20 seconds apart
Instants == {MinClock, MinClock + 1, MaxClock}

----------------------------------------------------------------------------
(* Contents play_state.json can have when the model starts *)

Obj1(k1, v1) == JObj([k \in {k1} |-> v1])
Obj2(k1, v1, k2, v2) == JObj([k \in {k1, k2} |-> IF k = k1 THEN v1 ELSE v2])

MetaObj(ch, t) == Obj2("last_channel", ch, "last_time", t)
NewFormat(indices, meta) == Obj2("indices", indices, "meta", meta)

WellFormedFiles ==
    { FJson(NewFormat(Obj2("rtl", JInt(1), "tv2", JInt(0)),
                      MetaObj(JStr("rtl"), JFloat(MinClock - 1)))),
      FJson(NewFormat(Obj1("rtl", JInt(7)),
                      MetaObj(JStr("rtl"), JFloat(MinClock - 1)))),
      FJson(NewFormat(Obj1("rtl", JInt(2)),
                      MetaObj(JStr("rtl"), JFloat(MinClock - 20)))),
      FJson(NewFormat(Obj1("rtl", JInt(-1)),
                      MetaObj(JStr("tv2"), JFloat(MinClock)))),
      FJson(NewFormat(Obj1("rtl", JInt(0)),
                      MetaObj(JStr("rtl"), JFloat(MinClock + 1)))) }

UnreadableFiles == {FMissing, FEmpty, FTruncated, FNonJson}

\* valid JSON of the wrong shape
MalformedFiles ==
    { FJson(JInt(5)), FJson(JList(1)), FJson(JStr("abc")), FJson(JNull),
      FJson(NewFormat(JList(1), MetaObj(JStr("rtl"), JFloat(MinClock - 1)))),
      FJson(NewFormat(JInt(5), MetaObj(JStr("rtl"), JFloat(MinClock - 1)))),
      FJson(NewFormat(JStr("abc"), MetaObj(JNull, JStr("abc")))),
      FJson(NewFormat(Obj2("rtl", JStr("abc"), "tv2", JNull),
                      MetaObj(JInt(5), JList(1)))),
      FJson(NewFormat(Obj2("rtl", JStr("1"), "tv2", JFloat(1)),
                      MetaObj(JStr(""), JStr("2")))),
      FJson(NewFormat(Obj1("rtl", JInt(1)), JInt(0))),
      FJson(NewFormat(Obj1("rtl", JInt(1)), JList(0))),
      FJson(NewFormat(Obj1("rtl", JInt(1)), JInt(5))),
      FJson(NewFormat(Obj1("rtl", JInt(1)), JStr("abc"))),
      FJson(NewFormat(Obj1("rtl", JInt(1)), JList(1))),
      FJson(Obj1("meta", JBool(TRUE))),
      FJson(Obj1("indices", Obj1("tv2", JInt(1)))) }

\* the older format: channel_id -> index
FlatFiles ==
    { FJson(JObj(NoMembers)),
      FJson(Obj2("rtl", JInt(1), "tv2", JInt(2))),
      FJson(Obj2("rtl", JInt(2), "tv2", JStr("abc"))),
      FJson(Obj2("rtl", JInt(2), "meta", JInt(1))),
      FJson(Obj2("rtl", JInt(1), "indices", JInt(2))) }

InitFiles == WellFormedFiles \cup UnreadableFiles \cup MalformedFiles \cup FlatFiles

----------------------------------------------------------------------------
(* The processes *)

\* per process: the call made last, whether it stored an index, the raw
\* index it was given, and what the state held when it was made: the index
\* stored for cid (0 when none), whether last_channel was cid, and how long
\* before the call last_time was ("neg": last_time is later than the call)
\* n is the number of candidates the call had
NoCall == [op |-> "none", cid |-> "", saved |-> FALSE, vidx |-> 0, n |-> 0,
           stored |-> 0, same |-> FALSE, gap |-> "long"]

StateBefore(p, cid) ==
    [stored |-> IF cid \in DOMAIN play_indices[p]
                THEN play_indices[p][cid] ELSE 0,
     same   |-> play_meta[p].last_channel = cid,
     gap    |-> IF clock < play_meta[p].last_time THEN "neg"
                ELSE IF clock - play_meta[p].last_time < 20 THEN "short"
                ELSE "long"]

\* the last call that stored an index: the variants it saw, the index it
\* stored and the time it recorded
NoLast == [op |-> "none", cid |-> "", variants |-> << >>, vidx |-> 0,
           index |-> 0, now |-> 0]

\* no list loaded, nothing built
BuildIdle ==
    [stage |-> "idle", has_whitelist |-> FALSE, entries |-> << >>,
     channels |-> << >>, playlist |-> << >>, streammex |-> << >>,
     whitelist_only |-> TRUE,
     addon |-> [written |-> FALSE, channels |-> << >>]]

\* the last source_manager call: the function, whether its case of
\* refusal applied (add: the url was in the list; remove, toggle: the
\* index was outside the list) and whether the lists read after it are
\* the lists read before it
NoSourceCall == [op |-> "none", refused |-> FALSE, unchanged |-> TRUE]

\* sources.json is not there, no source_manager call was made
SourcesIdle ==
    [exists |-> FALSE, m3u |-> << >>, epg |-> << >>, ret |-> "none", call |-> NoSourceCall]

\* nothing is loaded
LoadIdle == [stage |-> "idle"]

\* no M3U text at hand
M3uIdle == [stage |-> "idle"]

\* epg_manager as imported: _NAME_MAP_CACHE = {}, _NAME_MAP_MTIME = 0.0, and
\* no EPG file
EpgIdle == [stage |-> "idle"]

\* no get_play_url call was made
NoStreak == [cid |-> "", now |-> 0, urls |-> << >>, from_stored |-> TRUE]

\* nothing outside the selection engine and the channel list has happened
AuxIdle ==
    /\ sources = SourcesIdle
    /\ load = LoadIdle
    /\ m3u = M3uIdle
    /\ epg = EpgIdle
    /\ streak = NoStreak

Init ==
    /\ AuxIdle
    /\ catalog = CatFull
    /\ prefer_quality \in BOOLEAN
    /\ clock = MinClock
    /\ file \in InitFiles
    /\ pc = [p \in Procs |-> "idle"]
    /\ play_indices = [p \in Procs |-> EmptyIndices]
    /\ play_meta = [p \in Procs |-> DefaultMeta]
    /\ ret = [p \in Procs |-> NoUrl]
    /\ call = [p \in Procs |-> NoCall]
    /\ last = NoLast
    /\ build = BuildIdle

\* a write by another process has truncated the file and not finished
MidWrite(p) ==
    /\ file.k \in {"empty", "truncated"}
    /\ \E q \in Procs \ {p} : pc[q] = "writing"

\* COORDINATOR = PlaylistCoordinator(ADDON): __init__ calls _load_play_state
Start(p) ==
    /\ pc[p] = "idle"
    /\ LET l == _load_play_state(file) IN
        /\ pc' = [pc EXCEPT ![p] = IF l.raised THEN "crashed" ELSE "ready"]
        /\ play_indices' = [play_indices EXCEPT ![p] = l.indices]
        /\ play_meta' = [play_meta EXCEPT ![p] = l.meta]
    /\ call' = [call EXCEPT ![p] = [NoCall EXCEPT !.op = "load"]]
    /\ UNCHANGED <<aux, catalog, prefer_quality, build, clock, file, ret, last>>

\* the process ends (or died in the constructor)
Exit(p) ==
    /\ pc[p] \in {"ready", "crashed"}
    /\ pc' = [pc EXCEPT ![p] = "idle"]
    /\ play_indices' = [play_indices EXCEPT ![p] = EmptyIndices]
    /\ play_meta' = [play_meta EXCEPT ![p] = DefaultMeta]
    /\ ret' = [ret EXCEPT ![p] = NoUrl]
    /\ call' = [call EXCEPT ![p] = NoCall]
    /\ UNCHANGED <<aux, catalog, prefer_quality, build, clock, file, last>>

----------------------------------------------------------------------------
(* The selection calls *)

\* the quick-retry window of get_play_url, in seconds
QuickRetryWindow == 20

\* setting mag_support (default False)
mag_support == FALSE

_is_mag_url(url) ==
    LET u == LowerUrl(url) IN
    \/ Contains(u, <<"/", "c", "/">>)
    \/ /\ Contains(u, <<"l","i","v","e",".","p","h","p">>)
       /\ Contains(u, <<"m","a","c","=">>)

\* resolve_variant_url: a MAG url gets "|<headers>" appended
resolve_variant_url(url) ==
    IF mag_support /\ _is_mag_url(url) THEN url \o <<"|">> ELSE url

\* get_channel_by_id(channel_id) finds a channel
HasChannel(cid) == cid # "" /\ cid \in DOMAIN catalog

\* PrevIndex without the upper range check
PrevIndexNoUpperCheck(indices, cid, n) ==
    LET stored == IF cid \in DOMAIN indices THEN indices[cid] ELSE 0
    IN  IF stored < 0 THEN 0 ELSE stored

\* prev_index = int(self._play_indices.get(cid, 0) or 0), reset to 0 when
\* it is outside [0, len(candidates))
PrevIndex(indices, cid, n) ==
    LET stored == IF cid \in DOMAIN indices THEN indices[cid] ELSE 0
    IN  IF stored < 0 \/ stored >= n THEN 0 ELSE stored

\* QuickRetry with a window of 10 seconds
QuickRetryShortWindow(meta, cid, now) ==
    meta.last_channel = cid /\ (now - meta.last_time) < 10

\* quick_retry = (last_ch == cid and (now_ts - last_time) < 20.0)
QuickRetry(meta, cid, now) ==
    meta.last_channel = cid /\ (now - meta.last_time) < QuickRetryWindow

\* ChooseIndex that advances on every call
ChooseIndexAlwaysNext(indices, meta, cid, now, n) ==
    LET prev_index == PrevIndex(indices, cid, n) IN
    IF prev_index + 1 >= n THEN 0 ELSE prev_index + 1

\* ChooseIndex that stays on the last candidate instead of going back to
\* the first
ChooseIndexNoWrap(indices, meta, cid, now, n) ==
    LET prev_index == PrevIndex(indices, cid, n) IN
    IF QuickRetry(meta, cid, now)
    THEN (IF prev_index + 1 >= n THEN prev_index ELSE prev_index + 1)
    ELSE prev_index

\* the index get_play_url chooses among n candidates
ChooseIndex(indices, meta, cid, now, n) ==
    LET prev_index == PrevIndex(indices, cid, n) IN
    IF QuickRetry(meta, cid, now)
    THEN (IF prev_index + 1 >= n THEN 0 ELSE prev_index + 1)
    ELSE prev_index

\* idx = int(variant_index), 0 when that raises, clamped into [0, n)
RawIndex(v, n) ==
    LET idx == IF NumOk(v) THEN NumVal(v) ELSE 0
    IN  IF idx < 0 THEN 0 ELSE IF idx >= n THEN n - 1 ELSE idx

\* the index get_manual_play_url stores for raw index idx
ManualStoredIndex(variants, candidates, idx) == idx

\* target_index of set_preferred_variant: the first candidate with the url
\* of variants[raw_index], 0 when there is none
TargetIndex(variants, candidates, idx) ==
    LET hits == {i \in 0..(Len(candidates) - 1) :
                    candidates[i + 1] = variants[idx + 1]}
    IN  IF hits = {} THEN 0
        ELSE CHOOSE i \in hits : \A j \in hits : i <= j

\* Persist that records the time only for a channel it has no index of
PersistTimeOnce(p, cid, index) ==
    /\ play_indices' = [play_indices EXCEPT ![p] =
          [c \in DOMAIN @ \cup {cid} |-> IF c = cid THEN index ELSE @[c]]]
    /\ play_meta' = [play_meta EXCEPT ![p] =
          [last_channel |-> cid,
           last_time |-> IF cid \in DOMAIN play_indices[p]
                         THEN @.last_time ELSE clock]]
    /\ file' = FEmpty
    /\ pc' = [pc EXCEPT ![p] = "writing"]

\* self._play_indices[cid] = index; self._play_meta[...] = cid, now_ts;
\* then _save_play_state opens the file for writing, which truncates it
Persist(p, cid, index) ==
    /\ play_indices' = [play_indices EXCEPT ![p] =
          [c \in DOMAIN @ \cup {cid} |-> IF c = cid THEN index ELSE @[c]]]
    /\ play_meta' = [play_meta EXCEPT ![p] =
          [last_channel |-> cid, last_time |-> clock]]
    /\ file' = FEmpty
    /\ pc' = [pc EXCEPT ![p] = "writing"]

\* the call stored an index and returns url
Record(p, op, cid, variants, vidx, index, url) ==
    /\ call' = [call EXCEPT ![p] =
          [op |-> op, cid |-> cid, saved |-> TRUE, vidx |-> vidx,
           n |-> Len(variants),
           stored |-> StateBefore(p, cid).stored,
           same |-> StateBefore(p, cid).same,
           gap |-> StateBefore(p, cid).gap]]
    /\ last' = [op |-> op, cid |-> cid, variants |-> variants, vidx |-> vidx,
                index |-> index, now |-> clock]
    /\ ret' = [ret EXCEPT ![p] = url]

\* ReturnEarly that raises (a KeyError for the missing channel) instead of
\* returning None
ReturnEarlyRaises(p, op, cid) ==
    /\ ret' = [ret EXCEPT ![p] = NoUrl]
    /\ call' = [call EXCEPT ![p] = [NoCall EXCEPT !.op = op, !.cid = cid]]
    /\ pc' = [pc EXCEPT ![p] = "crashed"]
    /\ UNCHANGED <<file, play_indices, play_meta, last>>

\* a call that returns None before it touches the state
ReturnEarly(p, op, cid) ==
    /\ ret' = [ret EXCEPT ![p] = NoUrl]
    /\ call' = [call EXCEPT ![p] = [NoCall EXCEPT !.op = op, !.cid = cid]]
    /\ UNCHANGED <<file, pc, play_indices, play_meta, last>>

\* the body of get_play_url(channel_id)
GetPlayUrlStep(p, cid) ==
    /\ pc[p] = "ready"
    /\ IF ~HasChannel(cid) \/ catalog[cid] = << >>
       THEN ReturnEarly(p, "auto", cid)
       ELSE LET variants   == catalog[cid]
                candidates == Candidates(variants, prefer_quality)
                index      == ChooseIndex(play_indices[p], play_meta[p], cid,
                                          clock, Len(candidates))
            IN  /\ Persist(p, cid, index)
                /\ Record(p, "auto", cid, variants, 0, index,
                          resolve_variant_url(candidates[index + 1]))
    /\ UNCHANGED <<catalog, prefer_quality, build, clock>>

\* get_play_url(channel_id)
GetPlayUrl(p, cid) ==
    /\ GetPlayUrlStep(p, cid)
    /\ UNCHANGED aux

\* get_manual_play_url(channel_id, variant_index)
GetManualPlayUrl(p, cid, v) ==
    /\ pc[p] = "ready"
    /\ IF ~HasChannel(cid) \/ catalog[cid] = << >>
       THEN ReturnEarly(p, "manual", cid)
       ELSE LET variants   == catalog[cid]
                candidates == Candidates(variants, prefer_quality)
                idx        == RawIndex(v, Len(variants))
                index      == ManualStoredIndex(variants, candidates, idx)
            IN  /\ Persist(p, cid, index)
                /\ Record(p, "manual", cid, variants, idx, index,
                          resolve_variant_url(variants[idx + 1]))
    /\ UNCHANGED <<aux, catalog, prefer_quality, build, clock>>

\* set_preferred_variant(channel_id, variant_index)
SetPreferredVariant(p, cid, v) ==
    /\ pc[p] = "ready"
    /\ IF ~HasChannel(cid) \/ catalog[cid] = << >>
       THEN ReturnEarly(p, "prefer", cid)
       ELSE LET variants   == catalog[cid]
                candidates == Candidates(variants, prefer_quality)
                idx        == RawIndex(v, Len(variants))
                index      == TargetIndex(variants, candidates, idx)
            IN  /\ Persist(p, cid, index)
                /\ Record(p, "prefer", cid, variants, idx, index, NoUrl)
    /\ UNCHANGED <<aux, catalog, prefer_quality, build, clock>>

\* the text this process writes
MyText(p) == Dump(play_indices[p], play_meta[p])
MyLen(p)  == DumpLen(play_indices[p], play_meta[p])

\* f.write(text) and close: the text lands at offset 0 of the file as it is
\* now.  A longer text that another process wrote since this one truncated
\* the file keeps its tail, and the file is no JSON document.
WriteClose(p) ==
    /\ pc[p] = "writing"
    /\ file' = IF file.len <= MyLen(p)
               THEN [k |-> "json", v |-> MyText(p), len |-> MyLen(p)]
               ELSE [k |-> "nonjson", v |-> JNull, len |-> file.len]
    /\ pc' = [pc EXCEPT ![p] = "ready"]
    /\ UNCHANGED <<aux, catalog, prefer_quality, build, clock, play_indices, play_meta,
                   ret, call, last>>

\* WriteFail without the try/except of _save_play_state: the exception
\* leaves the call and the caller gets no URL
WriteFailRaises(p) ==
    /\ pc[p] = "writing"
    /\ pc' = [pc EXCEPT ![p] = "crashed"]
    /\ ret' = [ret EXCEPT ![p] = NoUrl]
    /\ UNCHANGED <<aux, catalog, prefer_quality, build, clock, file, play_indices,
                   play_meta, call, last>>

\* the write raises (disk full, I/O error): _save_play_state logs the
\* exception and returns, the file stays as it is
WriteFail(p) ==
    /\ pc[p] = "writing"
    /\ pc' = [pc EXCEPT ![p] = "ready"]
    /\ UNCHANGED <<aux, catalog, prefer_quality, build, clock, file, play_indices,
                   play_meta, ret, call, last>>

----------------------------------------------------------------------------
(* The environment *)

\* time passes
Tick ==
    /\ \E t \in Instants : t > clock /\ clock' = t
    /\ UNCHANGED <<aux, catalog, prefer_quality, build, file, pc, play_indices, play_meta,
                   ret, call, last>>

\* ensure_assets rebuilds the catalog
Rebuild ==
    /\ \E c \in Catalogs \ {catalog} : catalog' = c
    /\ UNCHANGED <<aux, prefer_quality, build, clock, file, pc, play_indices, play_meta,
                   ret, call, last>>

\* one plugin invocation at a time: the process is p1, started anew after
\* each exit
Main == "p1"

Next ==
    \/ Start(Main)
    \/ Exit(Main)
    \/ \E cid \in ReqIds : GetPlayUrl(Main, cid)
    \/ \E cid \in ReqIds, v \in VInputs : GetManualPlayUrl(Main, cid, v)
    \/ \E cid \in ReqIds, v \in VInputs : SetPreferredVariant(Main, cid, v)
    \/ WriteClose(Main)
    \/ WriteFail(Main)
    \/ Tick
    \/ Rebuild

Spec == Init /\ [][Next]_vars

----------------------------------------------------------------------------
(* Two plugin invocations that overlap.  As in default.py, an invocation  *)
(* constructs the coordinator, makes one call (here get_play_url) and ends. *)

InitOverlap ==
    /\ Init
    /\ prefer_quality
    /\ file \in WellFormedFiles \cup {FMissing}

FirstCall(p) == call[p].op = "load"

NextOverlap ==
    \/ \E p \in Procs : Start(p)
    \/ \E p \in Procs : Exit(p)
    \/ \E p \in Procs, cid \in ReqIds : FirstCall(p) /\ GetPlayUrl(p, cid)
    \/ \E p \in Procs : WriteClose(p)
    \/ \E p \in Procs : WriteFail(p)
    \/ Tick

SpecOverlap == InitOverlap /\ [][NextOverlap]_vars

----------------------------------------------------------------------------
(* Ranking: get_play_url on channels whose variants differ in the         *)
(* resolution marker only, with prefer_quality_sort on and no state file.  *)

InitRank ==
    /\ AuxIdle
    /\ catalog \in RankCatalogs
    /\ prefer_quality = TRUE
    /\ clock = MinClock
    /\ file = FMissing
    /\ pc = [p \in Procs |-> "idle"]
    /\ play_indices = [p \in Procs |-> EmptyIndices]
    /\ play_meta = [p \in Procs |-> DefaultMeta]
    /\ ret = [p \in Procs |-> NoUrl]
    /\ call = [p \in Procs |-> NoCall]
    /\ last = NoLast
    /\ build = BuildIdle

NextRank ==
    \/ Start(Main)
    \/ Exit(Main)
    \/ GetPlayUrl(Main, "rtl")
    \/ WriteClose(Main)
    \/ Tick

SpecRank == InitRank /\ [][NextRank]_vars

\* the tier of a resolution marker: 480 < 720/HD < 1080/FHD < 2160/4K/UHD
Tier(m) ==
    CASE m = <<"4","8","0">> -> 1
      [] m \in {<<"7","2","0">>, <<"H","D">>} -> 2
      [] m \in {<<"1","0","8","0">>, <<"F","H","D">>} -> 3
      [] m \in {<<"2","1","6","0">>, <<"4","K">>, <<"U","H","D">>} -> 4

\* the marker of a URL built by MarkerUrl
MarkerOf(url) == SubSeq(url, 3, Len(url))

\* C14: of two variants whose URLs differ in the resolution marker only,
\* the one with the marker of the higher tier has the strictly higher score
\* and is ranked first, and markers of one tier give equal scores
C14_HigherTierRankedFirst ==
    \A cid \in DOMAIN catalog :
        LET vs == catalog[cid] IN
        (Len(vs) = 2 /\ \A i \in 1..2 : MarkerOf(vs[i]) \in Markers)
        => LET t1 == Tier(MarkerOf(vs[1]))
               t2 == Tier(MarkerOf(vs[2]))
           IN  /\ t1 > t2 => /\ Score(vs[1]) > Score(vs[2])
                             /\ Candidates(vs, TRUE) = <<vs[1], vs[2]>>
               /\ t1 < t2 => /\ Score(vs[1]) < Score(vs[2])
                             /\ Candidates(vs, TRUE) = <<vs[2], vs[1]>>
               /\ t1 = t2 => Score(vs[1]) = Score(vs[2])

\* C7: no process loads play_state.json while it is empty or partly
\* written because another process is between the start and the end of
\* its write
C7_NoTornRead ==
    [][\A p \in Procs : Start(p) => ~MidWrite(p)]_vars

----------------------------------------------------------------------------
(* Properties of get_play_url *)

\* what a get_play_url step of p for channel cid starts from
StoredIndex(p, cid) ==
    IF cid \in DOMAIN play_indices[p] THEN play_indices[p][cid] ELSE 0

SameChannel(p, cid) == play_meta[p].last_channel = cid

Gap(p) == clock - play_meta[p].last_time

RankedNow(cid) == Candidates(catalog[cid], prefer_quality)

\* the step stores index i for cid and returns the i-th ranked candidate
Selects(p, cid, i) ==
    /\ cid \in DOMAIN play_indices'[p]
    /\ play_indices'[p][cid] = i
    /\ i \in 0..(Len(RankedNow(cid)) - 1)
    /\ ret'[p] = RankedNow(cid)[i + 1]

\* the persisted index when it is an index of the candidates, otherwise 0
InRangeOrZero(i, n) == IF i >= 0 /\ i < n THEN i ELSE 0

\* C1 as stated: a call for the channel of the preceding call, less than 20
\* seconds after it, selects (persisted index + 1) mod len(candidates)
C1_QuickRetryFromPersisted ==
    [][\A p \in Procs, cid \in ReqIds :
        (/\ HasChannel(cid)
         /\ SameChannel(p, cid)
         /\ Gap(p) >= 0 /\ Gap(p) < 20
         /\ GetPlayUrl(p, cid))
        => Selects(p, cid, (StoredIndex(p, cid) + 1) % Len(catalog[cid]))]_vars

\* C1 amended: a call for the channel of the preceding call, less than 20
\* seconds after it, selects (prevIndex + 1) mod len(candidates), where
\* prevIndex is the persisted index if that is in [0, len(candidates)) and 0
\* otherwise; the index is stored and the URL of that candidate returned
C1_QuickRetryAdvances ==
    [][\A p \in Procs, cid \in ReqIds :
        (/\ HasChannel(cid)
         /\ SameChannel(p, cid)
         /\ Gap(p) >= 0 /\ Gap(p) < 20
         /\ GetPlayUrl(p, cid))
        => Selects(p, cid,
               (InRangeOrZero(StoredIndex(p, cid), Len(catalog[cid])) + 1)
                   % Len(catalog[cid]))]_vars

\* a quick retry has advanced the index of a channel with three variants
\* from 1 to 2
C1_Witness ==
    \E p \in Procs :
        /\ call[p].op = "auto" /\ call[p].saved
        /\ call[p].same /\ call[p].gap = "short"
        /\ call[p].stored = 1
        /\ Len(last.variants) = 3
        /\ play_indices[p][call[p].cid] = 2

\* C2 as stated: without a quick retry the index persisted after the call
\* is the index persisted before it
C2_StickyKeepsPersisted ==
    [][\A p \in Procs, cid \in ReqIds :
        (/\ HasChannel(cid)
         /\ (~SameChannel(p, cid) \/ Gap(p) >= 20)
         /\ GetPlayUrl(p, cid))
        => Selects(p, cid, StoredIndex(p, cid))]_vars

\* C2 amended: when the preceding call was for another channel, or for this
\* channel 20 seconds or more ago, or there was none, the call selects
\* prevIndex (the persisted index if in [0, len(candidates)), otherwise 0),
\* stores it and returns that candidate
C2_StickySuccess ==
    [][\A p \in Procs, cid \in ReqIds :
        (/\ HasChannel(cid)
         /\ (~SameChannel(p, cid) \/ Gap(p) >= 20)
         /\ GetPlayUrl(p, cid))
        => Selects(p, cid,
               InRangeOrZero(StoredIndex(p, cid), Len(catalog[cid])))]_vars

\* a call 20 seconds or more after the preceding call for the same channel
\* has kept index 2
C2_Witness ==
    \E p \in Procs :
        /\ call[p].op = "auto" /\ call[p].saved
        /\ call[p].same /\ call[p].gap = "long"
        /\ call[p].stored = 2
        /\ play_indices[p][call[p].cid] = 2

----------------------------------------------------------------------------
(* Manual selection *)

\* C3: get_manual_play_url(ch, 1) and, one second later, get_play_url(ch)
\* by a process that holds the state the manual call stored: the URL
\* returned is the one at raw index 1 of the channel's variants
C3_ManualOverridePersists ==
    [][\A p \in Procs, cid \in ReqIds :
        (/\ HasChannel(cid)
         /\ last.op = "manual" /\ last.cid = cid /\ last.vidx = 1
         /\ last.variants = catalog[cid]
         /\ clock - last.now = 1
         /\ SameChannel(p, cid) /\ play_meta[p].last_time = last.now
         /\ StoredIndex(p, cid) = last.index
         /\ GetPlayUrl(p, cid))
        => ret'[p] = last.variants[2]]_vars

\* C4: after get_manual_play_url(ch, i) with i a position of the variant
\* list, the stored index is the rank of that variant:
\* candidates[selectedIndex].url = variants[i].url
C4_ManualStoresRankPosition ==
    [][\A p \in Procs, cid \in ReqIds, v \in VInputs :
        (/\ HasChannel(cid)
         /\ v.t = "int" /\ v.n >= 0 /\ v.n < Len(catalog[cid])
         /\ GetManualPlayUrl(p, cid, v))
        => /\ cid \in DOMAIN play_indices'[p]
           /\ play_indices'[p][cid] \in 0..(Len(catalog[cid]) - 1)
           /\ RankedNow(cid)[play_indices'[p][cid] + 1] = catalog[cid][v.n + 1]]_vars

----------------------------------------------------------------------------
(* What every get_play_url call leaves behind *)

C6_IndicesInRange ==
    /\ \A p \in Procs, cid \in DOMAIN catalog :
        LET n == Len(catalog[cid]) IN
        /\ PrevIndex(play_indices[p], cid, n) \in 0..(n - 1)
        /\ ChooseIndex(play_indices[p], play_meta[p], cid, clock, n) \in 0..(n - 1)
    /\ \A p \in Procs :
        (call[p].op = "auto" /\ call[p].saved)
        => /\ call[p].cid \in DOMAIN play_indices[p]
           /\ play_indices[p][call[p].cid] \in 0..(call[p].n - 1)
           /\ ret[p] # NoUrl

\* the catalog shrank to two variants while the state held index 2, and an
\* automatic call has chosen an index below 2
C6_Witness ==
    \E p \in Procs :
        /\ call[p].op = "auto" /\ call[p].saved
        /\ call[p].stored = 2 /\ call[p].n = 2
        /\ play_indices[p][call[p].cid] \in {0, 1}

----------------------------------------------------------------------------
(* Loading play_state.json *)

\* C8: loading a missing, empty, truncated or non-JSON file does not raise
\* and leaves no index, last_channel None and last_time 0
C8_UnreadableFileGivesDefaults ==
    [][\A p \in Procs :
        (file.k \in {"missing", "empty", "truncated", "nonjson"} /\ Start(p))
        => /\ pc'[p] = "ready"
           /\ DOMAIN play_indices'[p] = {}
           /\ play_meta'[p].last_channel = None
           /\ play_meta'[p].last_time = 0]_vars

\* a process has loaded a truncated file and holds the defaults
C8_Witness ==
    \E p \in Procs :
        /\ call[p].op = "load" /\ pc[p] = "ready"
        /\ file.k = "truncated"
        /\ DOMAIN play_indices[p] = {}

\* C9: loading a file that is valid JSON never raises, whatever its shape
C9_MalformedNeverRaises ==
    [][\A p \in Procs :
        (file.k = "json" /\ Start(p)) => pc'[p] # "crashed"]_vars

\* a file in the older format: an object of channel_id -> integer
IsFlat(f) ==
    /\ f.k = "json"
    /\ f.v.t = "obj"
    /\ \A c \in DOMAIN f.v.o : f.v.o[c].t = "int"

\* C10: loading a file in the older format gives every channel_id of the
\* file its integer, last_channel None and last_time 0
C10_FlatFormatAccepted ==
    [][\A p \in Procs :
        (IsFlat(file) /\ Start(p))
        => /\ pc'[p] = "ready"
           /\ DOMAIN play_indices'[p] = DOMAIN file.v.o
           /\ \A c \in DOMAIN file.v.o : play_indices'[p][c] = file.v.o[c].n
           /\ play_meta'[p].last_channel = None
           /\ play_meta'[p].last_time = 0]_vars

----------------------------------------------------------------------------
(* Saving play_state.json *)

\* the URL the last storing call returned: the candidate at the stored
\* index for an automatic call, the variant at the raw index for a manual one
LastUrl ==
    IF last.op = "auto"
    THEN Candidates(last.variants, prefer_quality)[last.index + 1]
    ELSE last.variants[last.vidx + 1]

\* C11: when the write of the state file fails, the call raises nothing and
\* returns the URL it chose, and the state in memory holds the new index,
\* last_channel and last_time
C11_WriteFailureSwallowed ==
    [][\A p \in Procs :
        (call[p].op \in {"auto", "manual"} /\ WriteFail(p))
        => /\ pc'[p] = "ready"
           /\ ret'[p] # NoUrl
           /\ ret'[p] = LastUrl
           /\ call[p].cid \in DOMAIN play_indices'[p]
           /\ play_indices'[p][call[p].cid] = last.index
           /\ play_meta'[p] = [last_channel |-> call[p].cid,
                               last_time |-> last.now]]_vars

\* the write of an automatic call failed (the file was truncated and never
\* written) and the caller holds a URL
C11_Witness ==
    \E p \in Procs :
        /\ call[p].op = "auto" /\ call[p].saved
        /\ pc[p] = "ready"
        /\ file.k = "empty"
        /\ ret[p] # NoUrl
        /\ play_meta[p].last_channel = call[p].cid

\* the file holds what the last storing call wrote: no call has opened it
\* since (processes run one after the other)
SavedByLast == last.op # "none" /\ file.k = "json"

\* C12: the file a successful write leaves loads into the indices,
\* last_channel and last_time the writer held; a process started after it
\* holds the index and the time of the last call, and its get_play_url for
\* the same channel less than 20 seconds after that call is a quick retry
C12_StateSurvivesRestart ==
    [][\A p \in Procs :
        /\ WriteClose(p)
           => _load_play_state(file') =
                  Loaded(FALSE, play_indices[p], play_meta[p])
        /\ (SavedByLast /\ Start(p))
           => /\ pc'[p] = "ready"
              /\ last.cid \in DOMAIN play_indices'[p]
              /\ play_indices'[p][last.cid] = last.index
              /\ play_meta'[p] = [last_channel |-> last.cid,
                                  last_time |-> last.now]
        /\ \A cid \in ReqIds :
              (/\ HasChannel(cid)
               /\ SavedByLast /\ last.cid = cid
               /\ FirstCall(p)
               /\ clock - last.now < 20
               /\ GetPlayUrl(p, cid))
              => Selects(p, cid,
                     (InRangeOrZero(last.index, Len(catalog[cid])) + 1)
                         % Len(catalog[cid]))]_vars

\* a process started after a manual call of an earlier process has loaded
\* the index and the time that call stored
C12_Witness ==
    \E p \in Procs :
        /\ call[p].op = "load" /\ pc[p] = "ready"
        /\ last.op = "manual" /\ file.k = "json"
        /\ last.cid \in DOMAIN play_indices[p]
        /\ play_indices[p][last.cid] = last.index
        /\ play_meta[p].last_time = last.now

----------------------------------------------------------------------------
(* Channel names, as character sequences.  A letter with an accent is the  *)
(* base letter followed by its marks: "o''" is o with a double acute, "e'" *)
(* e with an acute (what unicodedata.normalize decomposes them into).      *)

LowerLetters == <<"a","b","c","d","e","f","g","h","i","j","k","l","m",
                  "n","o","p","q","r","s","t","u","v","w","x","y","z">>
UpperLetters == <<"A","B","C","D","E","F","G","H","I","J","K","L","M",
                  "N","O","P","Q","R","S","T","U","V","W","X","Y","Z">>
DigitChars == {"0","1","2","3","4","5","6","7","8","9"}

\* accented letter -> <<base letter, upper-case form, lower-case form>>
Accented ==
    [c \in {"o''", "O''", "e'", "E'"} |->
        CASE c = "o''" -> <<"o", "O''", "o''">>
          [] c = "O''" -> <<"O", "O''", "o''">>
          [] c = "e'"  -> <<"e", "E'", "e'">>
          [] c = "E'"  -> <<"E", "E'", "e'">>]

IsLowerAZ(c) == \E i \in 1..26 : LowerLetters[i] = c
IsUpperAZ(c) == \E i \in 1..26 : UpperLetters[i] = c
IsDigit(c)   == c \in DigitChars
\* \s
IsSpace(c)   == c = " "
\* \w
IsWord(c) ==
    IsLowerAZ(c) \/ IsUpperAZ(c) \/ IsDigit(c) \/ c = "_" \/ c \in DOMAIN Accented

\* str.upper() and str.lower(), one character
ToUpper(c) ==
    IF IsLowerAZ(c) THEN UpperLetters[CHOOSE i \in 1..26 : LowerLetters[i] = c]
    ELSE IF c \in DOMAIN Accented THEN Accented[c][2] ELSE c
ToLower(c) ==
    IF IsUpperAZ(c) THEN LowerLetters[CHOOSE i \in 1..26 : UpperLetters[i] = c]
    ELSE IF c \in DOMAIN Accented THEN Accented[c][3] ELSE c

\* a list and a dict with the given items, as values held in memory
List(f) == f \o << >>
Dict(f) == f @@ << >>

UpperStr(s) == List([i \in 1..Len(s) |-> ToUpper(s[i])])
LowerStr(s) == List([i \in 1..Len(s) |-> ToLower(s[i])])

\* the characters of s at the positions in K that are at most n, in order
RECURSIVE KeepUpTo(_, _, _)
KeepUpTo(s, K, n) ==
    IF n = 0 THEN << >>
    ELSE IF n \in K THEN Append(KeepUpTo(s, K, n - 1), s[n])
    ELSE KeepUpTo(s, K, n - 1)

\* the characters of s at the positions in K, in order
KeepIdx(s, K) == KeepUpTo(s, K, Len(s))

\* s without the positions in D
DropIdx(s, D) == KeepIdx(s, (1..Len(s)) \ D)

\* str.strip()
StripStr(s) ==
    IF \A i \in 1..Len(s) : IsSpace(s[i]) THEN << >>
    ELSE SubSeq(s,
            CHOOSE i \in 1..Len(s) :
                ~IsSpace(s[i]) /\ \A j \in 1..(i - 1) : IsSpace(s[j]),
            CHOOSE i \in 1..Len(s) :
                ~IsSpace(s[i]) /\ \A j \in (i + 1)..Len(s) : IsSpace(s[j]))

\* re.sub(r"\s+", " ", s)
CollapseSpaces(s) ==
    KeepIdx(s, {i \in 1..Len(s) : ~(IsSpace(s[i]) /\ i > 1 /\ IsSpace(s[i - 1]))})

\* re.sub(r"\s+", "", s)
RemoveSpaces(s) == KeepIdx(s, {i \in 1..Len(s) : ~IsSpace(s[i])})

\* str.startswith / str.endswith
StartsWith(s, t) == Len(s) >= Len(t) /\ SubSeq(s, 1, Len(t)) = t
EndsWithStr(s, t) == Len(s) >= Len(t) /\ SubSeq(s, Len(s) - Len(t) + 1, Len(s)) = t

\* a word (maximal run of \w) starts at position a, and where it ends
WordStart(s, a) == IsWord(s[a]) /\ (a = 1 \/ ~IsWord(s[a - 1]))
WordEnd(s, a) ==
    CHOOSE k \in a..Len(s) :
        /\ \A j \in a..k : IsWord(s[j])
        /\ k = Len(s) \/ ~IsWord(s[k + 1])
WordAt(s, a) == SubSeq(s, a, WordEnd(s, a))

\* first position of the run of spaces that ends just before position a
\* (a itself when there is none)
SpacesBefore(s, a) ==
    CHOOSE p \in 1..a :
        /\ \A j \in p..(a - 1) : IsSpace(s[j])
        /\ p = 1 \/ ~IsSpace(s[p - 1])

\* unicodedata.normalize("NFKD"/"NFD", s) without the combining marks
_strip_accents(s) ==
    List([i \in 1..Len(s) |-> IF s[i] \in DOMAIN Accented THEN Accented[s[i]][1] ELSE s[i]])

\* _normalize_name: the quality words of
\* (\s*[-+_]?\s*)\b(HD|FHD|UHD|4K|SD|1080p?|720p?)\b, upper-cased (re.I)
NameQualityWords ==
    { <<"H","D">>, <<"F","H","D">>, <<"U","H","D">>, <<"4","K">>, <<"S","D">>,
      <<"1","0","8","0">>, <<"1","0","8","0","P">>,
      <<"7","2","0">>, <<"7","2","0","P">> }

\* where the match of (\s*[-+_]?\s*) that ends just before position a starts
QualityPrefixStart(s, a) ==
    LET w == SpacesBefore(s, a) IN
    IF w > 1 /\ s[w - 1] \in {"-", "+", "_"}
    THEN SpacesBefore(s, w - 1)
    ELSE w

\* PlaylistCoordinator._normalize_name
_normalize_name(name) ==
    IF name = << >> THEN << >>
    ELSE LET n == StripStr(_strip_accents(name))
             hits == {a \in 1..Len(n) :
                         /\ WordStart(n, a)
                         /\ UpperStr(WordAt(n, a)) \in NameQualityWords}
             cut == UNION {QualityPrefixStart(n, a)..WordEnd(n, a) : a \in hits}
         IN  StripStr(CollapseSpaces(DropIdx(n, cut)))

\* key_for_group = re.sub(r"\s+", "", clean_name).lower()
GroupKey(raw_name) ==
    LET clean_name == IF _normalize_name(raw_name) # << >>
                      THEN _normalize_name(raw_name) ELSE raw_name
    IN  LowerStr(RemoveSpaces(clean_name))

\* _make_channel_id that keeps the first word of the name only
ChannelIdOfFirstWord(name) ==
    LET stripped == StripStr(name)
        blanks   == {k \in 1..Len(stripped) : stripped[k] = " "}
    IN  LowerStr(IF blanks = {} THEN stripped
                 ELSE SubSeq(stripped, 1, (CHOOSE k \in blanks : \A j \in blanks : k <= j) - 1))

\* _make_channel_id
_make_channel_id(name) == LowerStr(StripStr(name))

----------------------------------------------------------------------------
(* m3u_builder: the mapping key of a name *)

COLOR == <<"C","O","L","O","R">>

\* a match of _COLOR_TAG_RE = \[/?COLOR[^\]]*\] (re.I) starts at position i
ColorTagAt(s, i) ==
    /\ s[i] = "["
    /\ LET w == IF i < Len(s) /\ s[i + 1] = "/" THEN i + 2 ELSE i + 1 IN
       /\ w + 4 <= Len(s)
       /\ UpperStr(SubSeq(s, w, w + 4)) = COLOR
       /\ \E k \in (w + 5)..Len(s) : s[k] = "]"

ColorTagEnd(s, i) ==
    LET w == IF s[i + 1] = "/" THEN i + 2 ELSE i + 1 IN
    CHOOSE k \in (w + 5)..Len(s) :
        s[k] = "]" /\ \A j \in (w + 5)..(k - 1) : s[j] # "]"

\* _strip_color_tags
_strip_color_tags(s) ==
    DropIdx(s, UNION {i..ColorTagEnd(s, i) :
                         i \in {j \in 1..Len(s) : ColorTagAt(s, j)}})

\* _NUM_REPLACEMENTS: \bWORD\b -> digit
_NUM_REPLACEMENTS ==
    [w \in { <<"I","I">>, <<"I","I","I">>, <<"I","V">>, <<"V","I","I">>,
             <<"E","G","Y">>, <<"K","E","T","T","O">>, <<"H","A","R","O","M">>,
             <<"N","E","G","Y">>, <<"O","T">>, <<"H","A","T">>, <<"H","E","T">> } |->
        CASE w = <<"I","I">> -> "2"
          [] w = <<"I","I","I">> -> "3"
          [] w = <<"I","V">> -> "4"
          [] w = <<"V","I","I">> -> "7"
          [] w = <<"E","G","Y">> -> "1"
          [] w = <<"K","E","T","T","O">> -> "2"
          [] w = <<"H","A","R","O","M">> -> "3"
          [] w = <<"N","E","G","Y">> -> "4"
          [] w = <<"O","T">> -> "5"
          [] w = <<"H","A","T">> -> "6"
          [] w = <<"H","E","T">> -> "7"]

\* for pattern, replacement in _NUM_REPLACEMENTS.items(): re.sub(...)
\* every word that is a numeral word becomes its digit
ReplaceNumerals(s) ==
    LET hits == {a \in 1..Len(s) :
                    WordStart(s, a) /\ WordAt(s, a) \in DOMAIN _NUM_REPLACEMENTS}
        t == [i \in 1..Len(s) |->
                IF i \in hits THEN _NUM_REPLACEMENTS[WordAt(s, i)] ELSE s[i]]
    IN  DropIdx(t, UNION {(a + 1)..WordEnd(s, a) : a \in hits})

\* nesting depth of the brackets in `open` before position i; a closing
\* bracket at depth 0 is ignored
RECURSIVE DepthBefore(_, _, _, _)
DepthBefore(s, i, open, close) ==
    IF i = 1 THEN 0
    ELSE LET d == DepthBefore(s, i - 1, open, close) IN
         IF s[i - 1] \in open THEN d + 1
         ELSE IF s[i - 1] \in close /\ d > 0 THEN d - 1
         ELSE d

\* the depth-tracked loop that drops bracket spans
DropBracketSpans(s, open, close) ==
    KeepIdx(s, {i \in 1..Len(s) :
                   /\ s[i] \notin open \cup close
                   /\ DepthBefore(s, i, open, close) = 0})

\* txt.replace('+', 'PLUS')
RECURSIVE ReplacePlus(_)
ReplacePlus(s) ==
    IF s = << >> THEN << >>
    ELSE (IF Head(s) = "+" THEN <<"P","L","U","S">> ELSE <<Head(s)>>)
         \o ReplacePlus(Tail(s))

\* s without its trailing spaces
RStrip(s) ==
    KeepIdx(s, {i \in 1..Len(s) : \E j \in i..Len(s) : ~IsSpace(s[j])})

\* re.sub(tail + r'\s*$', '', s) for a literal tail
DropTail(s, tail) ==
    IF EndsWithStr(RStrip(s), tail)
    THEN SubSeq(s, 1, Len(RStrip(s)) - Len(tail))
    ELSE s

\* re.sub(r'\s+' + word + '$', '', s) for a literal word
DropLastWord(s, word) ==
    IF EndsWithStr(s, word) /\ Len(s) > Len(word)
       /\ IsSpace(s[Len(s) - Len(word)])
    THEN SubSeq(s, 1, SpacesBefore(s, Len(s) - Len(word) + 1) - 1)
    ELSE s

\* re.sub(r'(\D)\s+(\d)', r'\1\2', s): the spaces between a character that
\* is no digit and a digit go; when the run of spaces follows a digit or
\* starts the string, its first space is the \D and stays
JoinLetterDigit(s) ==
    DropIdx(s, UNION {
        LET p == SpacesBefore(s, a) IN
        IF p = a THEN {}
        ELSE IF p > 1 /\ ~IsDigit(s[p - 1]) THEN p..(a - 1)
        ELSE (p + 1)..(a - 1) :
        a \in {i \in 1..Len(s) : IsDigit(s[i])}})

\* re.sub(r'[^0-9A-Z]+', '', s)
OnlyAlnumUpper(s) ==
    KeepIdx(s, {i \in 1..Len(s) : IsDigit(s[i]) \/ IsUpperAZ(s[i])})

\* re.sub(r'(HD|FHD|UHD|SD|4K|8K)$', '', s): the leftmost match goes
DropQualitySuffix(s) ==
    IF \E w \in {<<"F","H","D">>, <<"U","H","D">>} : EndsWithStr(s, w)
    THEN SubSeq(s, 1, Len(s) - 3)
    ELSE IF \E w \in {<<"H","D">>, <<"S","D">>, <<"4","K">>, <<"8","K">>} :
                EndsWithStr(s, w)
    THEN SubSeq(s, 1, Len(s) - 2)
    ELSE s

\* steps 4 to 8 of _normalize_epg_name
KeyOfUpperName(txt3) ==
    LET txt4 == DropBracketSpans(txt3, {"(", "["}, {")", "]"})
        txt5 == ReplacePlus(txt4)
        txt6 == DropLastWord(DropLastWord(
                   DropTail(DropTail(txt5, <<".","H","U">>),
                            <<".","P","O","R","T",".","H","U">>),
                   <<"T","V">>), <<"C","S","A","T","O","R","N","A">>)
        txt7 == JoinLetterDigit(txt6)
        txt8 == OnlyAlnumUpper(txt7)
    IN  DropQualitySuffix(txt8)

\* _normalize_epg_name without the numeral words (step 3)
NormalizeWithoutNumerals(name) ==
    LET txt0 == StripStr(name) IN
    IF txt0 = << >> THEN << >>
    ELSE KeyOfUpperName(UpperStr(_strip_accents(_strip_color_tags(txt0))))

\* _normalize_epg_name
_normalize_epg_name(name) ==
    LET txt0 == StripStr(name) IN
    IF txt0 = << >> THEN << >>
    ELSE LET txt1 == _strip_color_tags(txt0)
             txt2 == UpperStr(_strip_accents(txt1))
             txt3 == ReplaceNumerals(txt2)
         IN  KeyOfUpperName(txt3)

\* re.sub(r'\s*\.\s*' + word + r'\s*$', '', s, flags=re.IGNORECASE)
DropDotTail(s, word) ==
    LET r == RStrip(s)
        h == Len(r) - Len(word) + 1
    IN  IF EndsWithStr(LowerStr(r), word)
        THEN LET w == SpacesBefore(r, h) IN
             IF w > 1 /\ r[w - 1] = "."
             THEN SubSeq(s, 1, SpacesBefore(r, w - 1) - 1)
             ELSE s
        ELSE s

\* _clean_display_name_for_user
_clean_display_name_for_user(raw_name) ==
    LET s1 == DropBracketSpans(_strip_color_tags(raw_name), {"("}, {")"})
        hits == {a \in 1..Len(s1) :
                    /\ WordStart(s1, a)
                    /\ UpperStr(WordAt(s1, a)) \in
                         { <<"H","D">>, <<"F","H","D">>, <<"U","H","D">>,
                           <<"S","D">>, <<"4","K">>, <<"8","K">> }}
        s2 == DropIdx(s1, UNION {a..WordEnd(s1, a) : a \in hits})
        s3 == DropDotTail(s2, <<"h","u">>)
        s4 == DropDotTail(s3, <<"p","o","r","t",".","h","u">>)
    IN  StripStr(CollapseSpaces(s4))

----------------------------------------------------------------------------
(* m3u_builder: the alias resolver.  The tables are samples of the         *)
(* module's tables, rows kept in the order of the source.                  *)

\* Python's None where a channel identity is expected
NoId == << >>

ALIAS_DB ==
    << [id |-> <<"R","T","L">>,
        aliases |-> << <<"R","T","L"," ","K","L","U","B">>, <<"R","T","L","K","L","U","B">>, <<"R","T","L">> >>],
       [id |-> <<"R","T","L"," ","2">>,
        aliases |-> << <<"R","T","L"," ","2">>, <<"R","T","L","2">>, <<"R","T","L"," ","K","E","T","T","O">>, <<"R","T","L"," ","I","I">>, <<"R","T","L","K","E","T","T","O">> >>],
       [id |-> <<"M","1">>, aliases |-> << <<"M","1">> >>],
       [id |-> <<"A","M","C">>, aliases |-> << <<"A","M","C">> >>],
       [id |-> <<"V","I","V","I","D"," ","T","V">>, aliases |-> << <<"V","I","V","I","D"," ","T","V">>, <<"V","I","V","I","D">> >>] >>

\* the concatenation of a sequence of sequences
RECURSIVE Flatten(_)
Flatten(ss) == IF ss = << >> THEN << >> ELSE Head(ss) \o Flatten(Tail(ss))

\* list.sort(key=...): s in the order Less, equal elements keeping their
\* order in s
StableSort(s, Less(_, _)) ==
    LET rank(i) == Cardinality({j \in 1..Len(s) :
                       Less(s[j], s[i]) \/ (~Less(s[i], s[j]) /\ j < i)})
    IN  List([k \in 1..Len(s) |-> s[CHOOSE i \in 1..Len(s) : rank(i) = k - 1]])

LongerAlias(a, b) == Len(a.alias) > Len(b.alias)

\* _build_lookup_list
_build_lookup_list(alias_db) ==
    LET pairs(row, k) ==
            LET alias == row.aliases[k]
                no_space_alias == KeepIdx(alias, {i \in 1..Len(alias) : alias[i] # " "})
            IN  << [alias |-> alias, internal_id |-> row.id] >> \o
                (IF no_space_alias # alias
                 THEN << [alias |-> no_space_alias, internal_id |-> row.id] >>
                 ELSE << >>)
        rows(row) == Flatten([k \in 1..Len(row.aliases) |-> pairs(row, k)])
        lookup == Flatten([r \in 1..Len(alias_db) |-> rows(alias_db[r])])
    IN  StableSort(lookup, LongerAlias)

_SORTED_ALIASES == _build_lookup_list(ALIAS_DB)

\* identify_channel_id, step 1: the cleaned name
CleanedForAlias(raw_name) ==
    LET up == UpperStr(_strip_accents(raw_name))
        spaced == List([i \in 1..Len(up) |->
                      IF IsUpperAZ(up[i]) \/ IsDigit(up[i]) THEN up[i] ELSE " "])
    IN  StripStr(CollapseSpaces(spaced))

\* cleaned.startswith(alias), whatever follows
AliasIsPrefix(cleaned, alias) == StartsWith(cleaned, alias)

\* cleaned.startswith(alias) and the rest is empty or starts with a space
AliasMatches(cleaned, alias) ==
    /\ StartsWith(cleaned, alias)
    /\ Len(cleaned) = Len(alias) \/ cleaned[Len(alias) + 1] = " "

\* identify_channel_id
identify_channel_id(raw_name) ==
    IF raw_name = << >> THEN NoId
    ELSE LET cleaned == CleanedForAlias(raw_name)
             hits == {k \in 1..Len(_SORTED_ALIASES) :
                         AliasMatches(cleaned, _SORTED_ALIASES[k].alias)}
         IN  IF cleaned = << >> \/ hits = {} THEN NoId
             ELSE _SORTED_ALIASES[CHOOSE k \in hits : \A j \in hits : k <= j].internal_id

----------------------------------------------------------------------------
(* m3u_builder: the mapping table, the whitelist and the fixed channels    *)
(* (samples of the module's tables, rows in the order of the source).      *)

M3U_EPG_ID_MAP ==
    (<<"A","M","C">> :> [display |-> <<"A","M","C">>, tvg_id |-> <<"A","M","C",".","h","u">>]) @@
    (<<"M","1">> :> [display |-> <<"M","1">>, tvg_id |-> <<"M","1",".","h","u">>]) @@
    (<<"R","T","L">> :> [display |-> <<"R","T","L">>, tvg_id |-> <<"R","T","L",".","h","u">>]) @@
    (<<"R","T","L","2">> :> [display |-> <<"R","T","L"," ","2">>, tvg_id |-> <<"R","T","L","2",".","h","u">>]) @@
    (<<"V","I","V","I","D","T","V">> :> [display |-> <<"V","i","v","i","d"," ","T","V">>, tvg_id |-> << >>])

WHITELIST_DISPLAY_ORDER == << <<"R","T","L">>, <<"R","T","L"," ","2">>, <<"M","1">>, <<"A","M","C">>, <<"V","i","v","i","d"," ","T","V">> >>

\* a channel dict with the keys the builders read; a key the dict does not
\* have is the empty value (every read is a .get() tested for truth)
NoChannel ==
    [channel_id |-> << >>, display_name |-> << >>, name |-> << >>,
     tvg_name |-> << >>, url |-> << >>, variants |-> << >>,
     group_key |-> << >>, tvg_id |-> << >>, tvg_logo |-> "",
     group_title |-> "", fixed_public |-> FALSE]

\* the first of FIXED_PUBLIC_CHANNELS (group title spelt without accents)
FIXED_PUBLIC_CHANNELS ==
    << [NoChannel EXCEPT
           !.display_name = <<"M","1"," ","H","D">>,
           !.tvg_id = <<"M","1"," ","H","D">>,
           !.tvg_name = <<"M","1"," ","H","D">>,
           !.group_title = "Kozszolgalati",
           !.tvg_logo = "m1.png",
           !.url = <<"p","l","u","g","i","n",":","/","/","p","l","u","g","i","n",".","v","i","d","e","o",".","m","e","d","i","a","k","l","i","k","k","/","?","a","c","t","i","o","n","=","r","e","s","o","l","v","e","&","u","r","l","=","m","t","v","1","l","i","v","e","&","m","e","d","i","a","t","y","p","e","=","t","v","&","t","i","t","l","e","=","M","1">>] >>

\* CHANNEL_PACKAGES["core_hu"]["channels"], a sample
CHANNEL_PACKAGES == << <<"M","1">>, <<"M","1"," ","H","D">>, <<"R","T","L"," ","K","l","u","b">>, <<"R","T","L">> >>

----------------------------------------------------------------------------
(* epg_manager: the two normalisations of a name *)

\* the suffix loop of normalize_name: for suffix in ("HD","FHD","UHD","SD")
RECURSIVE DropSuffixes(_, _)
DropSuffixes(key, suffixes) ==
    IF suffixes = << >> THEN key
    ELSE DropSuffixes(IF EndsWithStr(key, Head(suffixes))
                      THEN SubSeq(key, 1, Len(key) - Len(Head(suffixes)))
                      ELSE key,
                      Tail(suffixes))

\* epg_manager.normalize_name
normalize_name(name) ==
    IF name = << >> THEN << >>
    ELSE LET txt1 == UpperStr(_strip_accents(name))
             txt2 == DropBracketSpans(txt1, {"("}, {")"})
             txt3 == ReplacePlus(txt2)
             txt4 == DropLastWord(DropLastWord(
                        DropTail(DropTail(txt3, <<".","H","U">>), <<".","P","O","R","T",".","H","U">>),
                        <<"T","V">>), <<"C","S","A","T","O","R","N","A">>)
             txt5 == JoinLetterDigit(txt4)
             key == OnlyAlnumUpper(txt5)
         IN  DropSuffixes(key, << <<"H","D">>, <<"F","H","D">>, <<"U","H","D">>, <<"S","D">> >>)

\* _simple_norm of _build_name_map_from_merged_epg, also the second key of
\* get_tvg_id_for_channel
_simple_norm(txt) ==
    IF txt = << >> THEN << >>
    ELSE OnlyAlnumUpper(DropLastWord(
             DropTail(UpperStr(_strip_accents(txt)), <<".","H","U">>), <<"T","V">>))

----------------------------------------------------------------------------
(* Character codes: the order of str comparison and the bytes of urlencode *)

\* the printable ASCII characters, chr(32) .. chr(126); the double quote,
\* the backslash and the backtick are written out as words
AsciiChars ==
    <<" ","!","QUOTE","#","$","%","&","'","(",")","*","+",",","-",".","/",
       "0","1","2","3","4","5","6","7","8","9",":",";","<","=",">","?",
       "@","A","B","C","D","E","F","G","H","I","J","K","L","M","N","O",
       "P","Q","R","S","T","U","V","W","X","Y","Z","[","BACKSLASH","]","^","_",
       "BACKTICK","a","b","c","d","e","f","g","h","i","j","k","l","m","n","o",
       "p","q","r","s","t","u","v","w","x","y","z","{","|","}","~">>

\* ord(c)
Ord(c) ==
    IF \E i \in 1..Len(AsciiChars) : AsciiChars[i] = c
    THEN 31 + (CHOOSE i \in 1..Len(AsciiChars) : AsciiChars[i] = c)
    ELSE CASE c = "E'" -> 201 [] c = "e'" -> 233
           [] c = "O''" -> 336 [] c = "o''" -> 337

\* a < b for two str
LexLess(a, b) ==
    \E k \in 1..(Len(b)) :
        /\ \A j \in 1..(k - 1) : j <= Len(a) /\ a[j] = b[j]
        /\ k > Len(a) \/ Ord(a[k]) < Ord(b[k])

HexDigits == <<"0","1","2","3","4","5","6","7","8","9","A","B","C","D","E","F">>

\* "%XX" for one byte
PercentByte(n) == <<"%", HexDigits[(n \div 16) + 1], HexDigits[(n % 16) + 1]>>

\* the bytes of c.encode("utf-8")
Utf8(c) ==
    IF Ord(c) < 128 THEN <<Ord(c)>>
    ELSE <<192 + (Ord(c) \div 64), 128 + (Ord(c) % 64)>>

\* urllib.parse.quote_plus, one character
QuotePlusChar(c) ==
    IF IsLowerAZ(c) \/ IsUpperAZ(c) \/ IsDigit(c) \/ c \in {"_", ".", "-", "~"}
    THEN <<c>>
    ELSE IF c = " " THEN <<"+">>
    ELSE Flatten([k \in 1..Len(Utf8(c)) |-> PercentByte(Utf8(c)[k])])

\* urllib.parse.quote_plus
QuotePlus(s) == Flatten([i \in 1..Len(s) |-> QuotePlusChar(s[i])])


----------------------------------------------------------------------------
(* The older copy of the add-on under src/addon: its name normalisation *)

\* PARENS_RE.sub("", s): from a bracket to the first closing bracket after it
RECURSIVE DropParens(_)
DropParens(s) ==
    IF s = << >> THEN << >>
    ELSE IF Head(s) \in {"(", "[", "{"} /\ \E k \in 2..Len(s) : s[k] \in {")", "]", "}"}
    THEN DropParens(SubSeq(s, 1 + (CHOOSE k \in 2..Len(s) :
                                      /\ s[k] \in {")", "]", "}"}
                                      /\ \A j \in 2..(k - 1) : s[j] \notin {")", "]", "}"}),
                           Len(s)))
    ELSE <<Head(s)>> \o DropParens(Tail(s))

\* TRAIL_TAGS_RE.sub("", s): \b(HD|UHD|4K|8K|\+|FULLHD)\b, re.I
DropTrailTags(s) ==
    DropIdx(s,
        UNION {a..WordEnd(s, a) :
                  a \in {i \in 1..Len(s) :
                            /\ WordStart(s, i)
                            /\ UpperStr(WordAt(s, i)) \in
                                 { <<"H","D">>, <<"U","H","D">>, <<"4","K">>, <<"8","K">>, <<"F","U","L","L","H","D">> }}}
        \cup {i \in 2..(Len(s) - 1) :
                 s[i] = "+" /\ IsWord(s[i - 1]) /\ IsWord(s[i + 1])})

\* s.replace("|", " ").replace("/", " ")
ReplaceBars(s) ==
    List([i \in 1..Len(s) |-> IF s[i] \in {"|", "/"} THEN " " ELSE s[i]])

\* _norm_name of the older copy
_norm_name(name) ==
    LowerStr(StripStr(CollapseSpaces(ReplaceBars(DropTrailTags(DropParens(name))))))

----------------------------------------------------------------------------
(* The names of the model: the raw entries the lists can deliver, the EPG *)
(* files, and what the functions above give for the names that occur.     *)

\* a raw entry of a loaded list; a key it lacks has the empty value
RawEntry(name, url, tvg_id, tvg_logo, group_title) ==
    [name |-> name, url |-> url, tvg_id |-> tvg_id, tvg_logo |-> tvg_logo,
     group_title |-> group_title]

\* longest list of raw entries the lists deliver
MaxEntries == 2

\* entries the loaded lists can hold
Entries ==
    [RtlKetto |-> RawEntry(<<"R","T","L"," ","K","e","t","t","o''">>, <<"A">>, << >>, "logo-a", "group-a"),
     RtlIIHD  |-> RawEntry(<<"R","T","L"," ","I","I"," ","H","D">>, <<"B">>, << >>, "logo-b", "group-b"),
     Rtl2     |-> RawEntry(<<"R","T","L"," ","2">>, <<"C">>, << >>, "", ""),
     RtlII    |-> RawEntry(<<"R","T","L"," ","I","I">>, <<"D">>, <<"o","w","n",".","r","t","l">>, "", "group-d"),
     Rtl20    |-> RawEntry(<<"R","T","L"," ","2","0">>, <<"E">>, <<"o","w","n",".","2","0">>, "", ""),
     HD       |-> RawEntry(<<"H","D">>, <<"F">>, << >>, "", ""),
     Zed      |-> RawEntry(<<"Z","e","d">>, <<"G">>, << >>, "", ""),
     ZedB     |-> RawEntry(<<"Z","e","d"," ","(","b",")">>, <<"H">>, << >>, "logo-h", ""),
     Vivid    |-> RawEntry(<<"V","i","v","i","d","T","V">>, <<"J">>, <<"o","w","n",".","v","i","v","i","d">>, "", ""),
     M1       |-> RawEntry(<<"M","1"," ","H","D">>, <<"I">>, <<"o","w","n",".","m","1">>, "", ""),
     Amc      |-> RawEntry(<<"A","M","C">>, <<"K">>, << >>, "", ""),
     Rtl2Pad  |-> RawEntry(<<" ","R","T","L"," ","2">>, <<"C"," ">>, <<"o","w","n",".","p","a","d">>, "logo-p", ""),
     NoUrl    |-> RawEntry(<<"R","T","L"," ","2">>, <<" ">>, << >>, "", "")]

SampleEntries == {Entries[k] : k \in DOMAIN Entries}

\* three spellings of one channel, from three URLs
RtlExample == <<Entries.RtlKetto, Entries.RtlIIHD, Entries.Rtl2>>

EntryLists ==
    UNION {[1..n -> SampleEntries] : n \in 0..MaxEntries} \cup {RtlExample}

\* the <channel> elements of the merged EPG XML: none when the file is
\* missing or unreadable, else a sample
EpgXmls ==
    { << >>,
      << [id |-> <<"Z","e","d",".","h","u">>, display_name |-> <<"Z","e","d"," ","T","V">>],
         [id |-> <<"R","T","L","2",".","h","u">>, display_name |-> <<"R","T","L"," ","2">>],
         [id |-> <<"R","T","L","I","I",".","h","u">>, display_name |-> <<"R","T","L"," ","I","I">>] >> }

\* ch.get(a) or ch.get(b) or ...
FirstTruthy(values) ==
    IF \E i \in 1..Len(values) : values[i] # << >>
    THEN values[CHOOSE i \in 1..Len(values) :
                   values[i] # << >> /\ \A j \in 1..(i - 1) : values[j] = << >>]
    ELSE << >>

\* str that occur as a name: in the entries, in the tables, in the EPG,
\* and as a display name or a channel id made from one of them
SampleNames ==
    LET base ==
            {e.name : e \in SampleEntries} \cup {StripStr(e.name) : e \in SampleEntries}
            \cup {FIXED_PUBLIC_CHANNELS[i].display_name : i \in 1..Len(FIXED_PUBLIC_CHANNELS)}
            \cup {WHITELIST_DISPLAY_ORDER[i] : i \in 1..Len(WHITELIST_DISPLAY_ORDER)}
            \cup {M3U_EPG_ID_MAP[k].display : k \in DOMAIN M3U_EPG_ID_MAP}
            \cup {CHANNEL_PACKAGES[i] : i \in 1..Len(CHANNEL_PACKAGES)}
            \cup {ALIAS_DB[i].id : i \in 1..Len(ALIAS_DB)}
            \cup UNION {{xml[i].display_name : i \in 1..Len(xml)} : xml \in EpgXmls}
        display == base \cup {_normalize_name(n) : n \in base}
                   \cup {_clean_display_name_for_user(n) : n \in base}
    IN  display \cup {_make_channel_id(n) : n \in display}

\* what the name functions give for the names of the model, computed once
Names ==
    Dict([name \in SampleNames |->
        [_normalize_name |-> _normalize_name(name),
         key_for_group |-> GroupKey(name),
         _make_mapping_key |-> _normalize_epg_name(name),
         identify_channel_id |-> identify_channel_id(name),
         _clean_display_name_for_user |-> _clean_display_name_for_user(name),
         normalize_name |-> normalize_name(name),
         _simple_norm |-> _simple_norm(name),
         _norm_name |-> _norm_name(name)]])

\* the positions of a list of keys that hold a key that is not empty and
\* not the key of an earlier position
FirstsOfKeys(keys) ==
    {i \in 1..Len(keys) :
        keys[i] # << >> /\ \A j \in 1..(i - 1) : keys[j] # keys[i]}

\* for idx, name in enumerate(...): if key and key not in index
IndexOfKeys(keys, firsts) ==
    Dict([key \in {keys[i] : i \in firsts} |->
        Cardinality({j \in firsts : j < CHOOSE i \in firsts : keys[i] = key})])

WhitelistKeys ==
    List([i \in 1..Len(WHITELIST_DISPLAY_ORDER) |->
             _normalize_epg_name(WHITELIST_DISPLAY_ORDER[i])])

\* _build_whitelist_index
_build_whitelist_index == IndexOfKeys(WhitelistKeys, FirstsOfKeys(WhitelistKeys))

_WHITELIST_ORDER_INDEX == _build_whitelist_index

\* _build_whitelist_display_map
_build_whitelist_display_map ==
    Dict([key \in DOMAIN _WHITELIST_ORDER_INDEX |->
        WHITELIST_DISPLAY_ORDER[CHOOSE i \in 1..Len(WhitelistKeys) :
            /\ WhitelistKeys[i] = key
            /\ \A j \in 1..(i - 1) : WhitelistKeys[j] # key]])

_WHITELIST_DISPLAY_BY_KEY == _build_whitelist_display_map

\* what the modules hold once loaded: the two whitelist dicts of
\* m3u_builder, and the results of the name functions
Modules ==
    [names |-> Names,
     _WHITELIST_ORDER_INDEX |-> _WHITELIST_ORDER_INDEX,
     _WHITELIST_DISPLAY_BY_KEY |-> _WHITELIST_DISPLAY_BY_KEY]

----------------------------------------------------------------------------
(* epg_manager: tvg ids for the channels that have none.  In the operators *)
(* below, m is Modules.                                                    *)

\* EPGSource values an addon setting can select (_get_epg_source_from_addon
\* never gives EPGSource.NONE)
EpgSources == {"iptvorg", "konyak"}

\* a sample of EPG_ID_MAP; a source the row lacks has the empty id
EPG_ID_MAP ==
    (<<"A","M","C">> :> [iptvorg |-> <<"A","M","C",".","h","u">>, konyak |-> <<"A","M","C",".","h","u">>]) @@
    (<<"A","T","V">> :> [iptvorg |-> <<"A","T","V",".","h","u">>, konyak |-> << >>])

\* t in s
HasSubstr(s, t) ==
    \E a \in 1..(Len(s) - Len(t) + 1) : SubSeq(s, a, a + Len(t) - 1) = t

\* _lookup_epg_id
_lookup_epg_id(norm_name, source) ==
    IF norm_name = << >> THEN NoId
    ELSE IF norm_name \in DOMAIN EPG_ID_MAP /\ EPG_ID_MAP[norm_name][source] # << >>
    THEN EPG_ID_MAP[norm_name][source]
    ELSE IF HasSubstr(norm_name, <<"A","R","E","N","A","4">>) /\ source = "iptvorg"
    THEN <<"A","R","E","N","A","4",".","h","u">>
    ELSE IF norm_name \in { <<"R","T","L","K","L","B">>, <<"R","T","L","K">>, <<"R","T","L","K","L","U","B">> } /\ source = "iptvorg"
    THEN <<"R","T","L","K","L","U","B",".","h","u">>
    ELSE NoId

\* the loop of _build_name_map_from_merged_epg over the (key, id) pairs
NameMapOfPairs(pairs, firsts) ==
    Dict([key \in {pairs[k].key : k \in firsts} |->
        pairs[CHOOSE k \in firsts : pairs[k].key = key].id])

\* _build_name_map_from_merged_epg: per channel the key n1, then the key
\* n2, each kept when not empty and not yet in the map
_build_name_map_from_merged_epg(m, xml) ==
    NameMapOfPairs(
        Flatten([i \in 1..Len(xml) |->
            << [key |-> m.names[xml[i].display_name]._simple_norm, id |-> xml[i].id],
               [key |-> m.names[xml[i].display_name].normalize_name, id |-> xml[i].id] >>]),
        FirstsOfKeys(Flatten([i \in 1..Len(xml) |->
            << m.names[xml[i].display_name]._simple_norm,
               m.names[xml[i].display_name].normalize_name >>])))

\* the EPG_ID_MAP part of get_tvg_id_for_channel: by channel_id, then by name
LookupById(m, channel_id, name, source) ==
    FirstTruthy(<<
        IF channel_id # << >>
        THEN _lookup_epg_id(m.names[channel_id].normalize_name, source) ELSE NoId,
        IF name # << >>
        THEN _lookup_epg_id(m.names[name].normalize_name, source) ELSE NoId >>)

\* the name_map part of get_tvg_id_for_channel: key1, then key2
LookupByName(m, name, name_map) ==
    IF name = << >> THEN NoId
    ELSE IF m.names[name].normalize_name \in DOMAIN name_map
    THEN name_map[m.names[name].normalize_name]
    ELSE IF m.names[name]._simple_norm \in DOMAIN name_map
    THEN name_map[m.names[name]._simple_norm]
    ELSE NoId

\* get_tvg_id_for_channel
get_tvg_id_for_channel(m, channel_id, name, source, name_map) ==
    FirstTruthy(<<LookupById(m, channel_id, name, source),
                  LookupByName(m, name, name_map)>>)

\* one channel of apply_tvg_ids, epg_id being what the lookup gives
ApplyTvgId(ch, epg_id) ==
    IF ch.tvg_id # << >> THEN ch
    ELSE IF epg_id # NoId THEN [ch EXCEPT !.tvg_id = epg_id]
    ELSE ch

\* apply_tvg_ids (through apply_tvg_ids_to_channels): in place, only the
\* channels whose tvg_id is empty; name_map is what
\* _build_name_map_from_merged_epg gives (cached for the run)
apply_tvg_ids(m, channels, source, name_map) ==
    List([i \in 1..Len(channels) |->
        ApplyTvgId(channels[i],
            get_tvg_id_for_channel(m, channels[i].channel_id,
                FirstTruthy(<<channels[i].tvg_name, channels[i].display_name,
                              channels[i].name, channels[i].channel_id>>),
                source, name_map))])

----------------------------------------------------------------------------
(* ensure_assets: from the raw entries of the lists to self._channels *)

\* step 4: name and url of every entry stripped
StripEntries(channels) ==
    List([i \in 1..Len(channels) |->
        [channels[i] EXCEPT !.name = StripStr(@), !.url = StripStr(@)]])

\* step 4: entries without name or url dropped, then the first entry of
\* every (name, url) kept
UniqueEntries(stripped) ==
    KeepIdx(stripped, {i \in 1..Len(stripped) :
        /\ stripped[i].name # << >>
        /\ stripped[i].url # << >>
        /\ \A j \in 1..(i - 1) :
              ~(stripped[j].name = stripped[i].name /\ stripped[j].url = stripped[i].url)})

DedupeEntries(channels) == UniqueEntries(StripEntries(channels))

\* step 5 with the RAW name of the group's first entry as display name
RawDisplayName(m, first_name) == first_name

\* step 5: clean_name = self._normalize_name(raw_name) or raw_name, which
\* name_map[key_for_group] holds for the group's first entry
GroupDisplayName(m, first_name) ==
    FirstTruthy(<<m.names[first_name]._normalize_name, first_name>>)

\* one channel of step 5, from the entries of its group
GroupChannel(variants, display_name, key) ==
    [NoChannel EXCEPT
        !.channel_id = _make_channel_id(display_name),
        !.display_name = display_name,
        !.name = display_name,
        !.url = variants[1].url,
        !.variants = variants,
        !.group_key = key,
        !.tvg_id = variants[1].tvg_id,
        !.tvg_logo = variants[1].tvg_logo,
        !.group_title = variants[1].group_title]

\* step 5: one channel per key_for_group, in the order the keys first
\* appear; variants are the group's entries in list order, the display
\* name and the metadata those of the first
GroupChannels(m, uniq) ==
    KeepIdx(
        List([i \in 1..Len(uniq) |->
            GroupChannel(
                KeepIdx(uniq, {j \in 1..Len(uniq) :
                    m.names[uniq[j].name].key_for_group = m.names[uniq[i].name].key_for_group}),
                FirstTruthy(<<GroupDisplayName(m, uniq[i].name), uniq[i].name>>),
                m.names[uniq[i].name].key_for_group)]),
        {i \in 1..Len(uniq) : \A j \in 1..(i - 1) :
            m.names[uniq[j].name].key_for_group # m.names[uniq[i].name].key_for_group})

----------------------------------------------------------------------------
(* m3u_builder: mapping, whitelist, dedup, sort and the lines of the M3U *)

\* order_index of a key that is not in the whitelist index
NotListed == 10000

\* allowed_package_keys: None unless the package filter is enabled
AllowedPackageKeys(m, enable_channel_package) ==
    [on |-> enable_channel_package,
     keys |-> {m.names[CHANNEL_PACKAGES[i]]._make_mapping_key :
                  i \in 1..Len(CHANNEL_PACKAGES)}]

\* new_ch['tvg_id'] = tvg_id
MapChannelTvgId(ch, entry_tvg_id) == entry_tvg_id

\* the whitelist test of one channel, never excluding
PassesAlways(m, whitelist_only, epg_key, pretty_name) == TRUE

\* if whitelist_only: the key, or else the key of the pretty name, is in
\* _WHITELIST_ORDER_INDEX
PassesWhitelist(m, whitelist_only, epg_key, pretty_name) ==
    \/ ~whitelist_only
    \/ epg_key \in DOMAIN m._WHITELIST_ORDER_INDEX
    \/ /\ pretty_name # << >>
       /\ m.names[pretty_name]._make_mapping_key \in DOMAIN m._WHITELIST_ORDER_INDEX

\* 1) key_raw, from the detected id when the whitelist module gives one
KeyRaw(m, raw_name, has_whitelist) ==
    IF has_whitelist /\ m.names[raw_name].identify_channel_id # NoId
    THEN m.names[m.names[raw_name].identify_channel_id]._make_mapping_key
    ELSE m.names[raw_name]._make_mapping_key

\* 2) pretty_name
PrettyName(m, raw_name, epg_key) ==
    IF epg_key \in DOMAIN M3U_EPG_ID_MAP
    THEN FirstTruthy(<<
            IF epg_key \in DOMAIN m._WHITELIST_DISPLAY_BY_KEY
            THEN StripStr(m._WHITELIST_DISPLAY_BY_KEY[epg_key]) ELSE << >>,
            StripStr(M3U_EPG_ID_MAP[epg_key].display),
            raw_name>>)
    ELSE m.names[raw_name]._clean_display_name_for_user

\* 2) new_ch
MappedCopy(ch, epg_key, pretty_name) ==
    IF epg_key \in DOMAIN M3U_EPG_ID_MAP
    THEN [ch EXCEPT
            !.tvg_id = MapChannelTvgId(ch, StripStr(M3U_EPG_ID_MAP[epg_key].tvg_id)),
            !.tvg_name = pretty_name,
            !.display_name = pretty_name,
            !.name = pretty_name]
    ELSE IF pretty_name # << >>
    THEN [ch EXCEPT !.display_name = pretty_name, !.name = pretty_name]
    ELSE ch

\* 3) wl_key
WhitelistKey(m, whitelist_only, epg_key, pretty_name) ==
    IF /\ whitelist_only
       /\ epg_key \notin DOMAIN m._WHITELIST_ORDER_INDEX
       /\ pretty_name # << >>
       /\ m.names[pretty_name]._make_mapping_key \in DOMAIN m._WHITELIST_ORDER_INDEX
    THEN m.names[pretty_name]._make_mapping_key
    ELSE epg_key

\* _WHITELIST_ORDER_INDEX.get(wl_key, 10_000)
OrderIndex(m, wl_key) ==
    IF wl_key \in DOMAIN m._WHITELIST_ORDER_INDEX
    THEN m._WHITELIST_ORDER_INDEX[wl_key] ELSE NotListed

\* the loop body once raw_name, key_raw and pretty_name are known: whether
\* the channel is kept, the mapped copy, its key and its sort key
MapNamed(m, ch, raw_name, epg_key, pretty_name, new_ch, whitelist_only, allowed) ==
    [keep |-> /\ raw_name # << >>
              /\ epg_key # << >>
              /\ allowed.on => epg_key \in allowed.keys
              /\ PassesWhitelist(m, whitelist_only, epg_key, pretty_name),
     ch |-> new_ch,
     epg_key |-> epg_key,
     order_index |-> OrderIndex(m, WhitelistKey(m, whitelist_only, epg_key, pretty_name)),
     sort_name |-> FirstTruthy(<<new_ch.display_name, new_ch.name>>)]

MapKeyed(m, ch, raw_name, epg_key, pretty_name, whitelist_only, allowed) ==
    MapNamed(m, ch, raw_name, epg_key, pretty_name,
             MappedCopy(ch, epg_key, pretty_name), whitelist_only, allowed)

MapRaw(m, ch, raw_name, epg_key, whitelist_only, allowed) ==
    MapKeyed(m, ch, raw_name, epg_key,
             IF raw_name = << >> THEN << >> ELSE PrettyName(m, raw_name, epg_key),
             whitelist_only, allowed)

\* the loop body of _apply_epg_mapping_and_whitelist for one channel
MapChannel(m, ch, raw_name, whitelist_only, has_whitelist, allowed) ==
    MapRaw(m, ch, raw_name,
           IF raw_name = << >> THEN << >> ELSE KeyRaw(m, raw_name, has_whitelist),
           whitelist_only, allowed)

\* dedup_key = (tvg_id or name, epg_key or name)
DedupKey(x) ==
    << FirstTruthy(<<StripStr(x.ch.tvg_id), x.ch.display_name, x.ch.name>>),
       FirstTruthy(<<StripStr(x.epg_key), x.ch.display_name, x.ch.name>>) >>

\* the entry the dict holds at the end for the key of position i, a first
\* position of its key: mapped[i], unless it is not fixed and a later one
\* of the key is
DedupWinner(mapped, i, later) ==
    IF mapped[i].ch.fixed_public \/ later = {} THEN mapped[i]
    ELSE mapped[CHOOSE j \in later : \A k \in later : j <= k]

\* list(dedup.values()): one entry per dedup_key, in the order the keys
\* first appear
Dedup(mapped) ==
    KeepIdx(
        List([i \in 1..Len(mapped) |->
            DedupWinner(mapped, i,
                {j \in (i + 1)..Len(mapped) :
                    DedupKey(mapped[j]) = DedupKey(mapped[i]) /\ mapped[j].ch.fixed_public})]),
        {i \in 1..Len(mapped) :
            \A j \in 1..(i - 1) : DedupKey(mapped[j]) # DedupKey(mapped[i])})

\* ch['_sort_key'] < ch['_sort_key']
SortKeyLess(a, b) ==
    \/ a.order_index < b.order_index
    \/ a.order_index = b.order_index /\ LexLess(a.sort_name, b.sort_name)

\* the channels of a list of loop results
ChannelsOf(result) == List([r \in 1..Len(result) |-> result[r].ch])

\* the loop results that were not skipped
KeptOf(all) == KeepIdx(all, {i \in 1..Len(all) : all[i].keep})

\* _apply_epg_mapping_and_whitelist
_apply_epg_mapping_and_whitelist(m, channels, whitelist_only, has_whitelist, enable_channel_package) ==
    ChannelsOf(StableSort(Dedup(KeptOf(
        List([i \in 1..Len(channels) |->
            MapChannel(m, channels[i],
                StripStr(FirstTruthy(<<channels[i].display_name, channels[i].name,
                                       channels[i].channel_id>>)),
                whitelist_only, has_whitelist,
                AllowedPackageKeys(m, enable_channel_package))]))),
        SortKeyLess))

\* _build_plugin_url
_build_plugin_url(channel, addon_id) ==
    IF StripStr(channel.channel_id) = << >> THEN << >>
    ELSE <<"p","l","u","g","i","n",":","/","/">> \o addon_id \o <<"/","?","a","c","t","i","o","n","=","p","l","a","y","&","i","d","=">> \o
         QuotePlus(StripStr(channel.channel_id))

\* _build_url_for_plugin_output
_build_url_for_plugin_output(channel, addon_id) ==
    IF StartsWith(StripStr(channel.url), <<"p","l","u","g","i","n",":","/","/">>) THEN StripStr(channel.url)
    ELSE _build_plugin_url(channel, addon_id)

\* the name after the comma of the #EXTINF line
ExtinfName(m, channel) ==
    FirstTruthy(<<
        StripStr(channel.display_name),
        m.names[FirstTruthy(<<channel.name, channel.channel_id, <<"U","n","k","n","o","w","n">>>>)]._clean_display_name_for_user,
        <<"U","N","K","N","O","W","N">>>>)

\* _build_extinf_line: the name after the comma and the attributes tvg-id,
\* tvg-name and group-title (an empty value: the attribute is not written)
_build_extinf_line(m, channel) ==
    [name |-> ExtinfName(m, channel),
     tvg_id |-> StripStr(channel.tvg_id),
     tvg_name |-> FirstTruthy(<<StripStr(channel.tvg_name), ExtinfName(m, channel)>>),
     group_title |-> channel.group_title]

\* the id of the add-on, the default of ensure_assets and of build_plugin_m3u
AddonId == <<"p","l","u","g","i","n",".","v","i","d","e","o",".","s","t","r","e","a","m","m","e","x">>

\* the lines of build_plugin_m3u: per channel that has a URL, its #EXTINF
\* line and its URL; channel_id is the channel the entry was built from
M3uLines(m, mapped) ==
    KeepIdx(List([i \in 1..Len(mapped) |->
                    [extinf |-> _build_extinf_line(m, mapped[i]),
                     url |-> _build_url_for_plugin_output(mapped[i], AddonId),
                     channel_id |-> mapped[i].channel_id]]),
            {i \in 1..Len(mapped) :
                _build_url_for_plugin_output(mapped[i], AddonId) # << >>})

\* build_plugin_m3u, include_fixed_public left at its default
build_plugin_m3u(m, channels, whitelist_only, has_whitelist, enable_channel_package) ==
    M3uLines(m, _apply_epg_mapping_and_whitelist(m,
        List([i \in 1..Len(FIXED_PUBLIC_CHANNELS) |->
                [FIXED_PUBLIC_CHANNELS[i] EXCEPT !.fixed_public = TRUE]]) \o channels,
        whitelist_only, has_whitelist, enable_channel_package))

----------------------------------------------------------------------------
(* The older copy of the add-on under src/addon: get_channels groups the   *)
(* parsed entries by _norm_name and keeps one URL per channel.             *)

\* the entries get_channels groups: those with a name, a norm and a url
AddonParts(m, all_parts) ==
    KeepIdx(all_parts, {i \in 1..Len(all_parts) :
        /\ all_parts[i].name # << >>
        /\ m.names[all_parts[i].name]._norm_name # << >>
        /\ all_parts[i].url # << >>})

\* norm of every grouped entry
AddonNorms(m, parts) ==
    List([i \in 1..Len(parts) |-> m.names[parts[i].name]._norm_name])

\* one channel of out_channels: i is the first entry of its norm, which
\* sets meta_store; urls are the URLs of the norm in list order
AddonChannel(parts, norms, i, urls, last_good_url) ==
    [norm |-> norms[i],
     name |-> parts[i].name,
     url |-> IF \E k \in 1..Len(urls) : urls[k] = last_good_url
             THEN last_good_url ELSE urls[1],
     tvg_logo |-> parts[i].tvg_logo,
     group |-> parts[i].group_title,
     alternates |-> urls]

NormLess(a, b) == LexLess(a.norm, b.norm)

\* out_channels of get_channels: for norm, bucket in sorted(by_name.items())
AddonChannels(parts, norms, last_good_url) ==
    StableSort(
        KeepIdx(
            List([i \in 1..Len(parts) |->
                AddonChannel(parts, norms, i,
                    KeepIdx(List([j \in 1..Len(parts) |-> parts[j].url]),
                            {j \in 1..Len(parts) : norms[j] = norms[i]}),
                    last_good_url)]),
            FirstsOfKeys(norms)),
        NormLess)

----------------------------------------------------------------------------
(* Building the channel list and the M3U files *)

InitBuild ==
    /\ AuxIdle
    /\ catalog = CatFull
    /\ prefer_quality = FALSE
    /\ clock = MinClock
    /\ file = FMissing
    /\ pc = [p \in Procs |-> "idle"]
    /\ play_indices = [p \in Procs |-> EmptyIndices]
    /\ play_meta = [p \in Procs |-> DefaultMeta]
    /\ ret = [p \in Procs |-> NoUrl]
    /\ call = [p \in Procs |-> NoCall]
    /\ last = NoLast
    /\ \E entries \in EntryLists, has_whitelist \in BOOLEAN :
          build = [BuildIdle EXCEPT !.stage = "input", !.entries = entries,
                                    !.has_whitelist = has_whitelist]

\* steps 4 to 7 of ensure_assets on the loaded entries
BuildAssets(m, b, uniq, grouped_channels, enable_channel_package) ==
    [b EXCEPT
        !.stage = "built",
        !.channels = IF uniq = << >> THEN << >> ELSE grouped_channels,
        !.playlist = IF uniq = << >> THEN @
                     ELSE build_plugin_m3u(m, grouped_channels, TRUE,
                              b.has_whitelist, enable_channel_package)]

\* ensure_assets(force=True): dedupe, group, apply_tvg_ids_to_channels,
\* build_plugin_m3u (whitelist_only left at its default) and the write of
\* the playlist; nothing is written when no channel is left
EnsureAssets(m) ==
    /\ build.stage \in {"input", "built", "written"}
    /\ \E source \in EpgSources, xml \in EpgXmls, enable_channel_package \in BOOLEAN :
          build' = BuildAssets(m, build, DedupeEntries(build.entries),
                       apply_tvg_ids(m, GroupChannels(m, DedupeEntries(build.entries)),
                           source, _build_name_map_from_merged_epg(m, xml)),
                       enable_channel_package)
    /\ UNCHANGED <<aux, catalog, prefer_quality, clock, file, pc, play_indices,
                   play_meta, ret, call, last>>

\* m3u_builder.write_plugin_m3u_file(addon, channels, whitelist_only=...)
\* on the channels of get_channels()
WritePluginM3uFile(m, whitelist_only) ==
    /\ build.stage \in {"built", "written"}
    /\ build' = [build EXCEPT
           !.stage = "written",
           !.streammex = build_plugin_m3u(m, build.channels, whitelist_only,
                             build.has_whitelist, FALSE),
           !.whitelist_only = whitelist_only]
    /\ UNCHANGED <<aux, catalog, prefer_quality, clock, file, pc, play_indices,
                   play_meta, ret, call, last>>

\* get_channels of the older copy, run in place of the current add-on on
\* the same entries; last_good_url is what its state file holds for the
\* channel
AddonGetChannels(m, last_good_url) ==
    /\ build.stage = "input"
    /\ build.entries # << >>
    /\ build' = [build EXCEPT
           !.stage = "addon",
           !.addon = [written |-> TRUE,
                      channels |-> AddonChannels(AddonParts(m, build.entries),
                          AddonNorms(m, AddonParts(m, build.entries)),
                          last_good_url)]]
    /\ UNCHANGED <<aux, catalog, prefer_quality, clock, file, pc, play_indices,
                   play_meta, ret, call, last>>

NextBuild ==
    \/ EnsureAssets(Modules)
    \/ \E whitelist_only \in BOOLEAN : WritePluginM3uFile(Modules, whitelist_only)
    \/ \E last_good_url \in {<< >>, <<"D">>} : AddonGetChannels(Modules, last_good_url)

SpecBuild == InitBuild /\ [][NextBuild]_vars

----------------------------------------------------------------------------
(* Claims C15 to C20, checked under SpecBuild *)

\* the channels are built (and, when "written", streammex.m3u from them)
Built == build.stage \in {"built", "written"}

\* the entries of step 4, from which the channels are grouped
Uniq == DedupeEntries(build.entries)

\* the elements of a list
Range(s) == {s[i] : i \in 1..Len(s)}

\* an M3U holds a line built from channel c
InOutput(lines, c) == \E k \in 1..Len(lines) : lines[k].channel_id = c.channel_id

C15_Holds(uniq) ==
    /\ \A i, j \in 1..Len(uniq) :
          _normalize_epg_name(uniq[i].name) = _normalize_epg_name(uniq[j].name) =>
              \E c \in 1..Len(build.channels) :
                  {uniq[i], uniq[j]} \subseteq Range(build.channels[c].variants)
    /\ build.entries = RtlExample =>
          /\ Len(build.channels) = 1
          /\ [k \in 1..Len(build.channels[1].variants) |->
                 build.channels[1].variants[k].url] = <<<<"A">>, <<"B">>, <<"C">>>>

\* C15: entries whose names have the same NormalizationKey are in one channel
\* of the aggregated list, and "RTL Ketto''" (A), "RTL II HD" (B), "RTL 2" (C)
\* give one channel with the variants A, B, C
C15_SameKeyOneChannel == Built => C15_Holds(Uniq)

C16_FirstOfGroup(c, uniq) ==
    /\ c.variants = KeepIdx(uniq, {i \in 1..Len(uniq) : uniq[i] \in Range(c.variants)})
    /\ c.tvg_logo = c.variants[1].tvg_logo
    /\ c.group_title = c.variants[1].group_title

C16_AddonFirstOfGroup(c, parts) ==
    \E i \in 1..Len(parts) :
        /\ _norm_name(parts[i].name) = c.norm
        /\ \A j \in 1..(i - 1) : _norm_name(parts[j].name) # c.norm
        /\ c.name = parts[i].name
        /\ c.tvg_logo = parts[i].tvg_logo
        /\ c.group = parts[i].group_title

C17_Spellings == { <<"R","T","L"," ","K","e","t","t","o''">>, <<"R","T","L"," ","I","I">>, <<"R","T","L"," ","I","I"," ","H","D">>, <<"R","T","L"," ","2">> }

\* C17: "RTL Ketto''", "RTL II", "RTL II HD" and "RTL 2" have the mapping key
\* of "RTL 2"
C17_SpellingsConverge ==
    \A i \in 1..Len(build.entries) :
        build.entries[i].name \in C17_Spellings =>
            /\ _normalize_epg_name(build.entries[i].name) = _normalize_epg_name(<<"R","T","L"," ","2">>)
            /\ _normalize_epg_name(build.entries[i].name) # << >>

C17_Witness ==
    /\ Built
    /\ ~build.has_whitelist
    /\ build.entries = RtlExample
    /\ \E k \in 1..Len(build.playlist) :
          /\ build.playlist[k].channel_id = <<"r","t","l"," ","k","e","t","t","o">>
          /\ build.playlist[k].extinf.name = <<"R","T","L"," ","2">>

C18_Qualifies(cleaned, alias) ==
    /\ Len(alias) <= Len(cleaned)
    /\ SubSeq(cleaned, 1, Len(alias)) = alias
    /\ Len(cleaned) = Len(alias) \/ cleaned[Len(alias) + 1] = " "

C18_Holds(name, result, hits) ==
    /\ IF hits = {} THEN result = NoId
       ELSE \E k \in hits :
               /\ result = _SORTED_ALIASES[k].internal_id
               /\ \A j \in hits : Len(_SORTED_ALIASES[j].alias) <= Len(_SORTED_ALIASES[k].alias)
    /\ name = <<"R","T","L"," ","2","0">> => result = <<"R","T","L">>

\* C18: identify_channel_id gives the identity of the longest alias that is
\* a prefix of the cleaned name and is followed by its end or by a space
\* ("RTL 20" is not "RTL 2"), and none when no alias is
C18_LongestAliasWins ==
    \A i \in 1..Len(build.entries) :
        C18_Holds(build.entries[i].name,
                  identify_channel_id(build.entries[i].name),
                  {k \in 1..Len(_SORTED_ALIASES) :
                      C18_Qualifies(CleanedForAlias(build.entries[i].name),
                                    _SORTED_ALIASES[k].alias)})

C18_Witness ==
    /\ Built
    /\ build.has_whitelist
    /\ \E i \in 1..Len(build.entries) : build.entries[i].name = <<"R","T","L"," ","2","0">>
    /\ \E k \in 1..Len(build.playlist) :
          /\ build.playlist[k].channel_id = <<"r","t","l"," ","2","0">>
          /\ build.playlist[k].extinf.name = <<"R","T","L">>

\* the loop result of the mapping for channel c without the whitelist test
C19_Mapped(m, c) ==
    MapChannel(m, c, StripStr(FirstTruthy(<<c.display_name, c.name, c.channel_id>>)),
               FALSE, build.has_whitelist, AllowedPackageKeys(m, FALSE))

\* neither the key of the channel nor the key of its pretty name is in the
\* whitelist index
C19_Absent(m, x) ==
    /\ x.epg_key \notin DOMAIN m._WHITELIST_ORDER_INDEX
    /\ m.names[x.ch.display_name]._make_mapping_key \notin DOMAIN m._WHITELIST_ORDER_INDEX

\* no fixed channel and no earlier channel of the list has the dedup key of
\* the channel at position i
C19_FirstOfKey(m, i) ==
    /\ \A j \in 1..(i - 1) :
          C19_Mapped(m, build.channels[j]).keep =>
              DedupKey(C19_Mapped(m, build.channels[j])) #
              DedupKey(C19_Mapped(m, build.channels[i]))
    /\ \A f \in 1..Len(FIXED_PUBLIC_CHANNELS) :
          DedupKey(C19_Mapped(m, FIXED_PUBLIC_CHANNELS[f])) #
          DedupKey(C19_Mapped(m, build.channels[i]))

C19_Excluded(m) ==
    \A i \in 1..Len(build.channels) :
        C19_Absent(m, C19_Mapped(m, build.channels[i])) =>
            /\ ~InOutput(build.playlist, build.channels[i])
            /\ build.stage = "written" /\ build.whitelist_only =>
                  ~InOutput(build.streammex, build.channels[i])

C19_AllIncluded(m) ==
    \A i \in 1..Len(build.channels) :
        /\ C19_Absent(m, C19_Mapped(m, build.channels[i]))
        /\ build.stage = "written" /\ ~build.whitelist_only
        => InOutput(build.streammex, build.channels[i])

C19_FirstIncluded(m) ==
    \A i \in 1..Len(build.channels) :
        /\ C19_Absent(m, C19_Mapped(m, build.channels[i]))
        /\ build.stage = "written" /\ ~build.whitelist_only
        /\ C19_Mapped(m, build.channels[i]).epg_key # << >>
        /\ C19_FirstOfKey(m, i)
        => InOutput(build.streammex, build.channels[i])

\* every entry that has a name and a URL is a variant of a channel of the
\* aggregated list
C19_Aggregated(uniq) ==
    \A i \in 1..Len(uniq) :
        \E c \in Range(build.channels) : uniq[i] \in Range(c.variants)

\* C19 as stated: a channel whose key and pretty-name key are not in the
\* whitelist index is in the aggregated list, in no M3U built with
\* whitelist_only, and in the M3U built without it
C19_ExcludedOnlyByWhitelist ==
    Built => /\ C19_Aggregated(Uniq)
             /\ C19_Excluded(Modules)
             /\ C19_AllIncluded(Modules)

\* C19: a channel whose key and pretty-name key are not in the whitelist
\* index is in the aggregated list and in no M3U built with whitelist_only;
\* it is in the M3U built without whitelist_only when its key is not empty
\* and no fixed or earlier channel has its dedup key
C19_WhitelistExclusion ==
    Built => /\ C19_Aggregated(Uniq)
             /\ C19_Excluded(Modules)
             /\ C19_FirstIncluded(Modules)

C19_WitnessAt(m) ==
    \E i \in 1..Len(build.channels) :
        /\ C19_Absent(m, C19_Mapped(m, build.channels[i]))
        /\ build.channels[i].display_name = <<"Z","e","d">>
        /\ InOutput(build.streammex, build.channels[i])
        /\ ~InOutput(build.playlist, build.channels[i])

C19_Witness ==
    build.stage = "written" /\ ~build.whitelist_only /\ C19_WitnessAt(Modules)

\* the tvg-id of the lines of an M3U that were built from channel c
C20_KeptIn(lines, c) ==
    \A k \in 1..Len(lines) :
        lines[k].channel_id = c.channel_id => lines[k].extinf.tvg_id = c.tvg_id

\* C20: a channel that has a tvg_id keeps it: that of its first entry through
\* apply_tvg_ids, and that of the channel list in the lines of the M3U
C20_TvgIdKept ==
    Built => \A c \in Range(build.channels) :
                /\ c.variants[1].tvg_id # << >> => c.tvg_id = c.variants[1].tvg_id
                /\ c.tvg_id # << >> => C20_KeptIn(build.playlist, c)

\* the first stage alone: apply_tvg_ids keeps the tvg_id of the first entry
C20_ApplyTvgIdsKeeps ==
    Built => \A c \in Range(build.channels) :
                c.variants[1].tvg_id # << >> => c.tvg_id = c.variants[1].tvg_id

----------------------------------------------------------------------------
(* playlist_source._parse_m3u_channels: an M3U text, as a character
   sequence in which "NL" is the line feed and "QUOTE" the double quote, to
   the raw entries.  A key the code leaves out of an entry (it copies only
   the truthy values) is the empty string here. *)

\* the first position >= i of character c in s, 0 when there is none
FindChar(s, c, i) ==
    IF \E k \in i..Len(s) : s[k] = c
    THEN CHOOSE k \in i..Len(s) : s[k] = c /\ \A j \in i..(k - 1) : s[j] # c
    ELSE 0

\* the first position >= i at which t occurs in s, 0 when there is none
SubAt(s, t, k) == SubSeq(s, k, k + Len(t) - 1) = t
FindSub(s, t, i) ==
    IF \E k \in i..(Len(s) - Len(t) + 1) : SubAt(s, t, k)
    THEN CHOOSE k \in i..(Len(s) - Len(t) + 1) :
            SubAt(s, t, k) /\ \A j \in i..(k - 1) : ~SubAt(s, t, j)
    ELSE 0

\* the first position >= i of s whose character is not in chars
SkipChars(s, chars, i) ==
    CHOOSE k \in i..(Len(s) + 1) :
        /\ \A j \in i..(k - 1) : s[j] \in chars
        /\ k = Len(s) + 1 \/ s[k] \notin chars

\* s[i:]
StrFrom(s, i) == SubSeq(s, i, Len(s))

\* text.splitlines(), for texts whose only line boundary is the line feed
RECURSIVE splitlines(_)
splitlines(text) ==
    IF text = << >> THEN << >>
    ELSE IF FindChar(text, "NL", 1) = 0 THEN <<text>>
    ELSE <<SubSeq(text, 1, FindChar(text, "NL", 1) - 1)>>
         \o splitlines(StrFrom(text, FindChar(text, "NL", 1) + 1))

\* "\n".join(lines)
RECURSIVE JoinLines(_)
JoinLines(lines) ==
    IF lines = << >> THEN << >>
    ELSE IF Len(lines) = 1 THEN lines[1]
    ELSE lines[1] \o <<"NL">> \o JoinLines(Tail(lines))

\* re.match(r"#EXTINF:-?\d+\s*(.*?),(.*)$", s): after the duration and the
\* white space behind it, group 1 runs to the FIRST comma and group 2 is
\* the rest of the line; d0, d1, w are the positions after the sign, the
\* digits and the white space
ExtinfGroups(s, d0, d1, w) ==
    IF d1 > d0 /\ FindChar(s, ",", w) > 0
    THEN [matched |-> TRUE,
          attrs |-> SubSeq(s, w, FindChar(s, ",", w) - 1),
          name  |-> StrFrom(s, FindChar(s, ",", w) + 1)]
    ELSE [matched |-> FALSE, attrs |-> << >>, name |-> << >>]

ExtinfDigits(s, d0) ==
    ExtinfGroups(s, d0, SkipChars(s, DigitChars, d0),
                 SkipChars(s, {" "}, SkipChars(s, DigitChars, d0)))

ExtinfMatch(s) ==
    IF ~StartsWith(s, <<"#","E","X","T","I","N","F",":">>)
    THEN [matched |-> FALSE, attrs |-> << >>, name |-> << >>]
    ELSE ExtinfDigits(s, IF Len(s) >= 9 /\ s[9] = "-" THEN 10 ELSE 9)

\* re.search(r'attr="([^"]*)"', attrs_part): group 1 stripped, or None
\* (here: found = FALSE) when the attribute is not there
AttrAt(attrs_part, from) ==
    IF from = 0 \/ FindChar(attrs_part, "QUOTE", from) = 0
    THEN [found |-> FALSE, value |-> << >>]
    ELSE [found |-> TRUE,
          value |-> StripStr(SubSeq(attrs_part, from,
                                    FindChar(attrs_part, "QUOTE", from) - 1))]

AttrSearch(attrs_part, attr) ==
    AttrAt(attrs_part,
           IF FindSub(attrs_part, attr \o <<"=", "QUOTE">>, 1) = 0 THEN 0
           ELSE FindSub(attrs_part, attr \o <<"=", "QUOTE">>, 1) + Len(attr) + 2)

AttrValue(attrs_part, attr) ==
    IF attrs_part # << >> /\ AttrSearch(attrs_part, attr).found
    THEN AttrSearch(attrs_part, attr).value
    ELSE << >>

\* current = None
NoCurrent ==
    [open |-> FALSE, name |-> << >>, tvg_id |-> << >>, tvg_name |-> << >>,
     tvg_logo |-> << >>, group_title |-> << >>, kodiprops |-> << >>]

\* the `current` dict of an #EXTINF line (lines 207 to 240)
ExtinfCurrent(attrs_part, name_part) ==
    [open |-> TRUE, name |-> name_part,
     tvg_id      |-> AttrValue(attrs_part, <<"t","v","g","-","i","d">>),
     tvg_name    |-> AttrValue(attrs_part, <<"t","v","g","-","n","a","m","e">>),
     tvg_logo    |-> AttrValue(attrs_part, <<"t","v","g","-","l","o","g","o">>),
     group_title |-> AttrValue(attrs_part, <<"g","r","o","u","p","-","t","i","t","l","e">>),
     kodiprops |-> << >>]

ParseExtinf(s) ==
    IF ExtinfMatch(s).matched
    THEN ExtinfCurrent(StripStr(ExtinfMatch(s).attrs), StripStr(ExtinfMatch(s).name))
    ELSE IF FindChar(s, ",", 1) > 0
    THEN ExtinfCurrent(<< >>, StripStr(StrFrom(s, FindChar(s, ",", 1) + 1)))
    ELSE ExtinfCurrent(<< >>, << >>)

\* the `ch` dict of _flush_current_with_url for a non-empty url
FlushedEntry(current, url) ==
    IF ~current.open
    THEN [name |-> url, url |-> url, tvg_id |-> << >>, tvg_name |-> << >>,
          tvg_logo |-> << >>, group_title |-> << >>, kodiprops |-> << >>]
    ELSE [name |-> StripStr(FirstTruthy(<<current.name, current.tvg_name, url>>)),
          url |-> url, tvg_id |-> current.tvg_id, tvg_name |-> current.tvg_name,
          tvg_logo |-> current.tvg_logo, group_title |-> current.group_title,
          kodiprops |-> current.kodiprops]

\* _flush_current_with_url(url_str) on the parser state [chans, current]
_flush_current_with_url(st, url_str) ==
    IF StripStr(url_str) = << >>
    THEN [st EXCEPT !.current = NoCurrent]
    ELSE [chans |-> Append(st.chans, FlushedEntry(st.current, StripStr(url_str))),
          current |-> NoCurrent]

\* the #KODIPROP: branch (lines 242 to 247)
AddKodiprop(st, prop) ==
    IF ~st.current.open \/ prop = << >> THEN st
    ELSE [st EXCEPT !.current.kodiprops = Append(@, prop)]

\* a loop in which an info line met while an entry is open is passed over
ParseLineKeepOpen(st, s) ==
    IF StripStr(s) = << >> THEN st
    ELSE IF StartsWith(s, <<"#","E","X","T","I","N","F">>)
    THEN (IF st.current.open THEN st ELSE [st EXCEPT !.current = ParseExtinf(s)])
    ELSE IF StartsWith(s, <<"#","K","O","D","I","P","R","O","P",":">>) THEN AddKodiprop(st, StripStr(StrFrom(s, 11)))
    ELSE IF StartsWith(s, <<"#">>) THEN st
    ELSE _flush_current_with_url(st, StripStr(s))

\* one turn of the loop over the lines (lines 202 to 255)
ParseLine(st, s) ==
    IF StripStr(s) = << >> THEN st
    ELSE IF StartsWith(s, <<"#","E","X","T","I","N","F">>) THEN [st EXCEPT !.current = ParseExtinf(s)]
    ELSE IF StartsWith(s, <<"#","K","O","D","I","P","R","O","P",":">>) THEN AddKodiprop(st, StripStr(StrFrom(s, 11)))
    ELSE IF StartsWith(s, <<"#">>) THEN st
    ELSE _flush_current_with_url(st, StripStr(s))

RECURSIVE ParseLines(_, _)
ParseLines(st, lines) ==
    IF lines = << >> THEN st
    ELSE ParseLines(ParseLine(st, Head(lines)), Tail(lines))

_parse_m3u_channels(text) ==
    ParseLines([chans |-> << >>, current |-> NoCurrent], splitlines(text)).chans

----------------------------------------------------------------------------
(* source_manager: the sources the user added in the GUI, kept in
   sources.json.  `sources` holds the two lists of the file (empty when
   the file is missing or unreadable) and what the last call returned. *)

\* {"m3u": [], "epg": []}
EmptySources == [m3u |-> << >>, epg |-> << >>]

SourceTypes == {"m3u", "epg"}

\* load_sources(): a missing file and a file that is not JSON both give
\* the two empty lists
load_sources(s) ==
    IF ~s.exists THEN EmptySources ELSE [m3u |-> s.m3u, epg |-> s.epg]

\* str.split(c)
RECURSIVE SplitOn(_, _)
SplitOn(s, c) ==
    IF FindChar(s, c, 1) = 0 THEN <<s>>
    ELSE <<SubSeq(s, 1, FindChar(s, c, 1) - 1)>>
         \o SplitOn(StrFrom(s, FindChar(s, c, 1) + 1), c)

\* url.split('/')[-1]
LastSegment(url) == SplitOn(url, "/")[Len(SplitOn(url, "/"))]

\* the entry add_source appends
SourceEntry(url, label) ==
    [url |-> url, label |-> IF label = << >> THEN LastSegment(url) ELSE label,
     enabled |-> TRUE]

\* del lst[index], index counted from 0
DelAt(lst, index) == SubSeq(lst, 1, index) \o SubSeq(lst, index + 2, Len(lst))

\* add_source without the search for the url
AddSourceAlways(data, source_type, url, label) ==
    [ret |-> "True", saved |-> TRUE,
     data |-> [data EXCEPT ![source_type] = Append(@, SourceEntry(url, label))]]

\* add_source(source_type, url, label) on the loaded data: the value
\* returned and the data handed to save_sources (saved = FALSE: no save)
add_source(data, source_type, url, label) ==
    IF \E i \in 1..Len(data[source_type]) : data[source_type][i].url = url
    THEN [ret |-> "False", saved |-> FALSE, data |-> data]
    ELSE [ret |-> "True", saved |-> TRUE,
          data |-> [data EXCEPT ![source_type] = Append(@, SourceEntry(url, label))]]

\* remove_source(source_type, index)
remove_source(data, source_type, index) ==
    IF 0 <= index /\ index < Len(data[source_type])
    THEN [ret |-> "True", saved |-> TRUE,
          data |-> [data EXCEPT ![source_type] = DelAt(@, index)]]
    ELSE [ret |-> "False", saved |-> FALSE, data |-> data]

\* toggle_source(source_type, index)
toggle_source(data, source_type, index) ==
    IF 0 <= index /\ index < Len(data[source_type])
    THEN [ret |-> "True", saved |-> TRUE,
          data |-> [data EXCEPT ![source_type][index + 1].enabled = ~@]]
    ELSE [ret |-> "False", saved |-> FALSE, data |-> data]

\* what util.write_json_file can do: write the file, raise before it
\* touched the file, or raise after it truncated the file (the file is
\* opened with "w"; what is left is not JSON and reads as no sources)
WriteOutcomes == {"written", "raised", "torn"}

\* save_sources(data) at the end of a call with result r
save_sources(s, r, outcome) ==
    IF ~r.saved THEN [s EXCEPT !.ret = r.ret]
    ELSE IF outcome = "written"
    THEN [s EXCEPT !.exists = TRUE, !.m3u = r.data.m3u, !.epg = r.data.epg, !.ret = r.ret]
    ELSE IF outcome = "torn"
    THEN [s EXCEPT !.exists = TRUE, !.m3u = << >>, !.epg = << >>, !.ret = "raised"]
    ELSE [s EXCEPT !.ret = "raised"]

----------------------------------------------------------------------------
(* The loading steps of ensure_assets (lines 583 to 706): plan A,
   _load_external_m3u_channels, over the sources of the settings and of
   sources.json, and plan B, the Hungary lists of the index, when plan A
   gave nothing.  The raw entries they give are what the grouping steps
   (EnsureAssets above) start from. *)

UrlS  == <<"h","t","t","p",":","/","/","s">>
UrlA  == <<"h","t","t","p",":","/","/","a">>
UrlB  == <<"H","T","T","P","S",":","/","/","B">>
PathF == <<"/","f">>
Hun1  == <<"h","t","t","p",":","/","/","h","/","1",".","m","3","u">>
Hun2  == <<"h","t","t","p",":","/","/","h","/","2",".","M","3","U","8">>
Hun3  == <<"h","t","t","p",":","/","/","h","/","3",".","m","3","u">>
HunX  == <<"h","t","t","p",":","/","/","h","/","x",".","t","x","t">>

Locations == {UrlS, UrlA, UrlB, PathF, Hun1, Hun2, Hun3, HunX}

\* the playlist kept at a location: one entry, named after the last
\* segment of the location
M3uAt(loc) ==
    <<"#","E","X","T","I","N","F",":","-","1",",">> \o LastSegment(loc) \o <<"NL">> \o loc \o <<"/","v">> \o <<"NL">>

\* _parse_m3u_channels on the texts of the locations, computed once
ParsedTexts == [text \in {M3uAt(loc) : loc \in Locations} |-> _parse_m3u_channels(text)]

\* the settings external_m3u_url and external_m3u_file
UrlSettings  == { << >>, <<" ","h","t","t","p",":","/","/","s"," ","|"," ","|">> }
FileSettings == { << >>, <<"/","f">> }

\* sources.json after some add_source and toggle_source calls
SourcesOf(items) == [exists |-> TRUE, m3u |-> items, epg |-> << >>, ret |-> "True"]
SourceFiles ==
    { SourcesIdle,
      SourcesOf(<<SourceEntry(UrlA, << >>)>>),
      SourcesOf(<<SourceEntry(PathF, << >>), SourceEntry(UrlB, << >>)>>),
      SourcesOf(<<[SourceEntry(UrlA, << >>) EXCEPT !.enabled = FALSE],
                  SourceEntry(UrlB, << >>)>>),
      SourcesOf(<<SourceEntry(<<" ">>, << >>), SourceEntry(PathF, << >>)>>) }

\* the Hungary entries of the index, after _filter_hungary
MaxHun == 3
HunAll == <<Hun1, HunX, Hun2, Hun3>>
HunLists == {SubSeq(HunAll, 1, n) : n \in 0..MaxHun}

\* what a request can do.  util.http_request returns the status and the
\* body, (None, b"") for a URLError, and raises anything else (a time-out
\* while reading, a reset connection); urllib.request.urlopen returns the
\* body of a 200 or raises.
HttpKinds == {"ok", "empty", "not_found", "unreachable", "raised_ok", "raised_failed"}
Response(status, data) == [raised |-> FALSE, status |-> status, data |-> data]
Raised == [raised |-> TRUE, status |-> 0, data |-> << >>]

\* the two clients on a url, for each kind of outcome; the status of
\* util.http_request is given after `int(status or 0)`
HttpOutcome(url, kind) ==
    [util   |-> CASE kind = "ok"          -> Response(200, M3uAt(url))
                  [] kind = "empty"       -> Response(200, << >>)
                  [] kind = "not_found"   -> Response(404, M3uAt(url))
                  [] kind = "unreachable" -> Response(0, << >>)
                  [] OTHER                -> Raised,
     urllib |-> IF kind = "raised_ok" THEN Response(200, M3uAt(url)) ELSE Raised]

\* _http_get(url): util.http_request, and urllib when that raised
_http_get(o) ==
    IF ~o.util.raised
    THEN [status |-> o.util.status, data |-> o.util.data, requests |-> 1]
    ELSE IF ~o.urllib.raised
    THEN [status |-> o.urllib.status, data |-> o.urllib.data, requests |-> 2]
    ELSE [status |-> 0, data |-> << >>, requests |-> 2]

\* a loop that would pass over a source for its empty body alone
FetchFailedOnEmptyBody(status, data) == data = << >>

\* `if status != 200 or not data: continue`
FetchFailed(status, data) == status # 200 \/ data = << >>

\* one turn of a loop over urls: the request and the entries it adds
Fetched(kind, url, outcome, r) ==
    [kind |-> kind, loc |-> url, outcome |-> outcome, requests |-> r.requests,
     chans |-> IF FetchFailed(r.status, r.data) THEN << >> ELSE ParsedTexts[r.data]]

FetchUrl(kind, url, outcome) ==
    Fetched(kind, url, outcome, _http_get(HttpOutcome(url, outcome)))

\* one turn of the loop over paths: the file is missing, cannot be read,
\* or holds a playlist
FileKinds == {"text", "missing", "unreadable"}
ReadPath(path, outcome) ==
    [kind |-> "file", loc |-> path, outcome |-> outcome, requests |-> 0,
     chans |-> IF outcome = "text" THEN ParsedTexts[M3uAt(path)] ELSE << >>]

NonEmpty(s) == s # << >>

\* _split_multi_values(value): 'a | b | c' -> ['a', 'b', 'c']
_split_multi_values(value) ==
    IF StripStr(value) = << >> THEN << >>
    ELSE SelectSeq(List([i \in 1..Len(SplitOn(StripStr(value), "|")) |->
                            StripStr(SplitOn(StripStr(value), "|")[i])]),
                   NonEmpty)

\* url.lower().startswith(('http://', 'https://'))
IsHttpUrl(url) ==
    \/ StartsWith(LowerStr(url), <<"h","t","t","p",":","/","/">>)
    \/ StartsWith(LowerStr(url), <<"h","t","t","p","s",":","/","/">>)

\* the items of sources.json that are used: url not blank, enabled
UsedItem(item) == StripStr(item.url) # << >> /\ item.enabled
UsedUrl(item)  == UsedItem(item) /\ IsHttpUrl(StripStr(item.url))
UsedPath(item) == UsedItem(item) /\ ~IsHttpUrl(StripStr(item.url))
StrippedUrls(items) == List([i \in 1..Len(items) |-> StripStr(items[i].url)])

\* urls and paths of _load_external_m3u_channels before its two loops
ExternalUrls(external_m3u_url, sm_data) ==
    _split_multi_values(external_m3u_url)
        \o StrippedUrls(SelectSeq(sm_data.m3u, UsedUrl))
ExternalPaths(external_m3u_file, sm_data) ==
    _split_multi_values(external_m3u_file)
        \o StrippedUrls(SelectSeq(sm_data.m3u, UsedPath))

\* _load_external_m3u_channels: all the urls in turn, then all the paths
_load_external_m3u_channels(urls, paths, web, disk) ==
    List([i \in 1..Len(urls) |-> FetchUrl("url", urls[i], web[i])])
        \o List([i \in 1..Len(paths) |-> ReadPath(paths[i], disk[i])])

\* channels.extend(...) over the turns
LoadedChannels(fetches) == Flatten(List([i \in 1..Len(fetches) |-> fetches[i].chans]))

\* url.lower().endswith((".m3u", ".m3u8"))
IsM3uUrl(url) ==
    \/ EndsWithStr(LowerStr(url), <<".","m","3","u">>)
    \/ EndsWithStr(LowerStr(url), <<".","m","3","u","8">>)

\* plan B: with three Hungary lists the third comes first and the first
\* last; the entries whose url does not end in .m3u or .m3u8 are passed
BeeUrls(hun_entries) ==
    SelectSeq(IF Len(hun_entries) = 3
              THEN <<hun_entries[3], hun_entries[2], hun_entries[1]>>
              ELSE hun_entries,
              IsM3uUrl)

FetchBee(hun_entries, bee) ==
    List([i \in 1..Len(BeeUrls(hun_entries)) |->
             FetchUrl("bee", BeeUrls(hun_entries)[i], bee[i])])

\* the sources to load from; the sources file is read on each load
InitLoad ==
    /\ catalog = CatFull
    /\ prefer_quality = FALSE
    /\ clock = MinClock
    /\ file = FMissing
    /\ pc = [p \in Procs |-> "idle"]
    /\ play_indices = [p \in Procs |-> EmptyIndices]
    /\ play_meta = [p \in Procs |-> DefaultMeta]
    /\ ret = [p \in Procs |-> NoUrl]
    /\ call = [p \in Procs |-> NoCall]
    /\ last = NoLast
    /\ build = BuildIdle
    /\ m3u = M3uIdle
    /\ epg = EpgIdle
    /\ streak = NoStreak
    /\ sources \in SourceFiles
    /\ \E u \in UrlSettings, f \in FileSettings, hun \in HunLists :
          load = [stage |-> "input", external_m3u_url |-> u,
                  external_m3u_file |-> f, hun_entries |-> hun,
                  fetches |-> << >>, entries |-> << >>]

\* what ensure_assets has after plan A (fetches a) and plan B (fetches b)
LoadResult(l, a, b) ==
    [l EXCEPT !.stage = "loaded", !.fetches = a \o b,
              !.entries = LoadedChannels(a) \o LoadedChannels(b)]

PlanB(l, a) ==
    IF LoadedChannels(a) # << >> THEN {<< >>}
    ELSE {FetchBee(l.hun_entries, bee) :
              bee \in [1..Len(BeeUrls(l.hun_entries)) -> HttpKinds]}

PlanA(urls, paths) ==
    {_load_external_m3u_channels(urls, paths, web, disk) :
         web \in [1..Len(urls) -> HttpKinds], disk \in [1..Len(paths) -> FileKinds]}

\* ensure_assets(force=True) up to the raw entries: every request and
\* every file read ends in one of its outcomes
LoadChannels ==
    /\ load.stage = "input"
    /\ \E a \in PlanA(ExternalUrls(load.external_m3u_url, load_sources(sources)),
                      ExternalPaths(load.external_m3u_file, load_sources(sources))) :
          \E b \in PlanB(load, a) : load' = LoadResult(load, a, b)
    /\ UNCHANGED <<catalog, prefer_quality, clock, file, pc, play_indices,
                   play_meta, ret, call, last, build, sources, m3u, epg, streak>>

NextLoad == LoadChannels

SpecLoad == InitLoad /\ [][NextLoad]_vars

----------------------------------------------------------------------------
(* C21: sources that fail are passed over *)

\* the source gave a playlist
Succeeded(f) == f.outcome \in {"ok", "raised_ok", "text"}

\* the entries of the playlists of the sources that succeeded, in the
\* order of the fetches
EntriesOfSucceeded(fetches) ==
    Flatten(List([i \in 1..Len(fetches) |->
        IF Succeeded(fetches[i]) THEN ParsedTexts[M3uAt(fetches[i].loc)] ELSE << >>]))

FetchLocs(fetches) == List([i \in 1..Len(fetches) |-> fetches[i].loc])

\* the used sources of sources.json, in the order of the list, that are
\* (http = TRUE) or are not (http = FALSE) http(s) urls
RECURSIVE GuiLocs(_, _)
GuiLocs(items, http) ==
    IF items = << >> THEN << >>
    ELSE (IF /\ Head(items).enabled
             /\ StripStr(Head(items).url) # << >>
             /\ IsHttpUrl(StripStr(Head(items).url)) = http
          THEN <<StripStr(Head(items).url)>> ELSE << >>)
         \o GuiLocs(Tail(items), http)

\* every used source of sources.json in the order of the list
RECURSIVE GuiListed(_)
GuiListed(items) ==
    IF items = << >> THEN << >>
    ELSE (IF Head(items).enabled /\ StripStr(Head(items).url) # << >>
          THEN <<StripStr(Head(items).url)>> ELSE << >>)
         \o GuiListed(Tail(items))

\* plan A asks the urls of the setting, the urls of sources.json, the
\* files of the setting, the files of sources.json
OrderA ==
    _split_multi_values(load.external_m3u_url) \o GuiLocs(load_sources(sources).m3u, TRUE)
    \o _split_multi_values(load.external_m3u_file) \o GuiLocs(load_sources(sources).m3u, FALSE)

\* plan B asks the playlists of the index: as listed, or last to first
\* when there are exactly three entries
OrderB == SelectSeq(load.hun_entries, IsM3uUrl)
OrderBTurned ==
    IF Len(load.hun_entries) = 3
    THEN SelectSeq(<<load.hun_entries[3], load.hun_entries[2], load.hun_entries[1]>>, IsM3uUrl)
    ELSE OrderB

\* the sources as configured: the settings, then sources.json as listed
Configured ==
    _split_multi_values(load.external_m3u_url) \o _split_multi_values(load.external_m3u_file)
    \o GuiListed(load_sources(sources).m3u)

\* none of the first n fetches gave an entry
NothingFrom(fetches, n) == \A i \in 1..n : fetches[i].chans = << >>

----------------------------------------------------------------------------
(* m3u.parse of the older copy (plugin.video.streammex_eredeti): the name
   and the url of its entries; the attributes _parse_extinf reads from
   the info line are left out *)

\* line.partition(',')[2].strip()
AddonTitle(line) ==
    IF FindChar(line, ",", 1) = 0 THEN << >>
    ELSE StripStr(StrFrom(line, FindChar(line, ",", 1) + 1))

\* one turn of the loop of parse on the state [entries, current, open]:
\* `elif current:` takes ANY other line as the url of the open entry
AddonParseLine(st, raw_line) ==
    IF StripStr(raw_line) = << >> THEN st
    ELSE IF StartsWith(StripStr(raw_line), <<"#","E","X","T","M","3","U">>) THEN st
    ELSE IF StartsWith(StripStr(raw_line), <<"#","E","X","T","I","N","F">>)
    THEN [st EXCEPT !.open = TRUE, !.name = AddonTitle(StripStr(raw_line))]
    ELSE IF st.open
    THEN [entries |-> Append(st.entries, [name |-> st.name, url |-> StripStr(raw_line)]),
          open |-> FALSE, name |-> << >>]
    ELSE st

RECURSIVE AddonParseLines(_, _)
AddonParseLines(st, lines) ==
    IF lines = << >> THEN st
    ELSE AddonParseLines(AddonParseLine(st, Head(lines)), Tail(lines))

\* parse(content)
parse(content) ==
    AddonParseLines([entries |-> << >>, open |-> FALSE, name |-> << >>],
                    splitlines(content)).entries

----------------------------------------------------------------------------
(* Parsing a playlist text *)

\* the lines a playlist is made of
LineE1 == <<"#","E","X","T","I","N","F",":","-","1"," ","t","v","g","-","i","d","=","QUOTE","x","QUOTE",",","A">>
LineE2 == <<"#","E","X","T","I","N","F",":","-","1",",","B">>
LineK1 == <<"#","K","O","D","I","P","R","O","P",":","p","=","1">>
LineK2 == <<"#","K","O","D","I","P","R","O","P",":","q">>
LineU1 == <<"u","1">>
LineU2 == <<" ","u","2"," ">>
LineBlank == <<" ">>
LineComment == <<"#","E","X","T","M","3","U">>

SampleLines == {LineE1, LineE2, LineK1, LineK2, LineU1, LineU2, LineBlank, LineComment}

\* a text has at most MaxLines lines
MaxLines == 4
SampleTexts == {JoinLines(lines) : lines \in UNION {[1..n -> SampleLines] : n \in 0..MaxLines}}

InitParse ==
    /\ catalog = CatFull
    /\ prefer_quality = FALSE
    /\ clock = MinClock
    /\ file = FMissing
    /\ pc = [p \in Procs |-> "idle"]
    /\ play_indices = [p \in Procs |-> EmptyIndices]
    /\ play_meta = [p \in Procs |-> DefaultMeta]
    /\ ret = [p \in Procs |-> NoUrl]
    /\ call = [p \in Procs |-> NoCall]
    /\ last = NoLast
    /\ build = BuildIdle
    /\ sources = SourcesIdle
    /\ load = LoadIdle
    /\ epg = EpgIdle
    /\ streak = NoStreak
    /\ \E text \in SampleTexts :
          m3u = [stage |-> "input", channels |-> << >>, text |-> text,
                 chans |-> << >>, addon |-> << >>]

\* the text is parsed: by _parse_m3u_channels and, in the older copy, by
\* m3u.parse
ParseM3u ==
    /\ m3u.stage \in {"input", "written"}
    /\ m3u' = [m3u EXCEPT !.stage = "parsed",
                          !.chans = _parse_m3u_channels(m3u.text),
                          !.addon = parse(m3u.text)]
    /\ UNCHANGED <<catalog, prefer_quality, clock, file, pc, play_indices,
                   play_meta, ret, call, last, build, sources, load, epg, streak>>

NextParse == ParseM3u

SpecParse == InitParse /\ [][NextParse]_vars

----------------------------------------------------------------------------
(* C22: an info line without a URL line *)

\* the kinds of line of a playlist
IsInfoLine(s) == StartsWith(s, <<"#","E","X","T","I","N","F">>)
IsUrlLine(s)  == StripStr(s) # << >> /\ ~StartsWith(s, <<"#">>)

\* line i is an info line and no URL line follows it before the end of
\* the text or the next info line
Dangling(lines, i) ==
    /\ IsInfoLine(lines[i])
    /\ \A j \in (i + 1)..Len(lines) :
          IsUrlLine(lines[j]) => \E k \in (i + 1)..(j - 1) : IsInfoLine(lines[k])

\* the lines without line i
WithoutLine(lines, i) == SubSeq(lines, 1, i - 1) \o SubSeq(lines, i + 1, Len(lines))

\* C22: an info line that no URL line follows before the end of the text
\* or the next info line gives no entry and does not stop the parser: the
\* entries are those of the text without that line
C22_DanglingInfoLineDropped ==
    m3u.stage = "parsed" =>
        \A i \in 1..Len(splitlines(m3u.text)) :
            Dangling(splitlines(m3u.text), i) =>
                m3u.chans = _parse_m3u_channels(
                                JoinLines(WithoutLine(splitlines(m3u.text), i)))

\* a text with an entry, an info line without URL line, and an entry
\* after it, was parsed
C22_DanglingBetweenEntries ==
    /\ m3u.stage = "parsed"
    /\ Len(m3u.chans) = 2
    /\ Len(splitlines(m3u.text)) = 4
    /\ IsUrlLine(splitlines(m3u.text)[1])
    /\ Dangling(splitlines(m3u.text), 2)
    /\ IsInfoLine(splitlines(m3u.text)[3])
    /\ IsUrlLine(splitlines(m3u.text)[4])

----------------------------------------------------------------------------
(* C23: one entry per URL line, with the property lines of its block *)

IsPropLine(s) == StartsWith(s, <<"#","K","O","D","I","P","R","O","P",":">>)

\* the positions of the URL lines, in order
UrlLineIdx(lines) ==
    SelectSeq(List([i \in 1..Len(lines) |-> i]), LAMBDA i : IsUrlLine(lines[i]))

\* the info line of the URL line at j: the last info line before j that
\* no URL line separates from j; 0 when there is none
OpenInfoLine(lines, j) ==
    IF \E i \in 1..(j - 1) :
          IsInfoLine(lines[i]) /\ \A k \in (i + 1)..(j - 1) : ~IsUrlLine(lines[k])
    THEN CHOOSE i \in 1..(j - 1) :
            /\ IsInfoLine(lines[i])
            /\ \A k \in (i + 1)..(j - 1) : ~IsUrlLine(lines[k]) /\ ~IsInfoLine(lines[k])
    ELSE 0

\* what the property lines between i and j hold
PropsBetween(lines, i, j) ==
    LET idx == SelectSeq(List([k \in 1..Len(lines) |-> k]),
                         LAMBDA k : i < k /\ k < j /\ IsPropLine(lines[k]))
    IN  List([n \in 1..Len(idx) |-> StripStr(StrFrom(lines[idx[n]], 11))])

\* the url and the properties of the entry of each URL line
EntryPerUrlLine(lines) ==
    List([n \in 1..Len(UrlLineIdx(lines)) |->
        [url |-> StripStr(lines[UrlLineIdx(lines)[n]]),
         kodiprops |-> IF OpenInfoLine(lines, UrlLineIdx(lines)[n]) = 0 THEN << >>
                       ELSE PropsBetween(lines, OpenInfoLine(lines, UrlLineIdx(lines)[n]),
                                         UrlLineIdx(lines)[n])]])

\* the entries of _parse_m3u_channels are those
ParserEntryPerUrlLine ==
    m3u.stage = "parsed" =>
        List([n \in 1..Len(m3u.chans) |->
                 [url |-> m3u.chans[n].url, kodiprops |-> m3u.chans[n].kodiprops]])
            = EntryPerUrlLine(splitlines(m3u.text))

\* the entries of m3u.parse of the older copy, which keeps no
\* properties, are those
OlderParserEntryPerUrlLine ==
    m3u.stage = "parsed" =>
        List([n \in 1..Len(m3u.addon) |-> [url |-> m3u.addon[n].url, kodiprops |-> << >>]])
            = EntryPerUrlLine(splitlines(m3u.text))

\* C23: the parser gives one entry per URL line (a line that is neither
\* blank nor a comment), in the order of the text, and the properties of
\* an entry are the #KODIPROP lines between its info line and its URL
\* line, in order; a property line outside such a block belongs to no
\* entry.  Stated for _parse_m3u_channels and for m3u.parse of the older
\* copy.
C23_OneEntryPerUrlLine ==
    ParserEntryPerUrlLine /\ OlderParserEntryPerUrlLine

\* the older copy parsed a text with a property line between an info
\* line and its URL line
C23_OlderCopyTakesPropertyAsUrl ==
    /\ m3u.stage = "parsed"
    /\ m3u.text = JoinLines(<<LineE2, LineK1, LineU1>>)
    /\ m3u.addon = <<[name |-> <<"B">>, url |-> LineK1]>>
    /\ m3u.chans[1].url = LineU1
    /\ m3u.chans[1].kodiprops = <<<<"p","=","1">>>>

----------------------------------------------------------------------------
(* m3u_builder.build_direct_m3u: a catalog written as playlist text *)

LOCAL_LOGO_FOLDER == <<"s","p","e","c","i","a","l",":","/","/","h","o","m","e","/","a","d","d","o","n","s","/","p","l","u","g","i","n",".","v","i","d","e","o",".","s","t","r","e","a","m","m","e","x","/","l","o","g","o","s">>
LOCAL_LOGO_EXTENSION == <<".","p","n","g">>

\* _build_local_logo_value(display_name): the name without accents, in
\* lower case, under the logo folder
_build_local_logo_value(display_name) ==
    IF StripStr(display_name) = << >> THEN << >>
    ELSE LOCAL_LOGO_FOLDER \o <<"/">> \o LowerStr(_strip_accents(StripStr(display_name)))
         \o LOCAL_LOGO_EXTENSION

\* the name _build_extinf_line writes: the display name as it is, or the
\* cleaned name, the channel id, 'Unknown'
ExtinfNameText(channel) ==
    IF StripStr(channel.display_name) # << >> THEN StripStr(channel.display_name)
    ELSE FirstTruthy(<<
            _clean_display_name_for_user(
                FirstTruthy(<<channel.name, channel.channel_id, <<"U","n","k","n","o","w","n">>>>)),
            <<"U","N","K","N","O","W","N">>>>)

\* f'{key}="{value}"'
AttrText(key, value) == key \o <<"=", "QUOTE">> \o value \o <<"QUOTE">>

\* ' '.join(parts)
RECURSIVE JoinSpace(_)
JoinSpace(parts) ==
    IF parts = << >> THEN << >>
    ELSE IF Len(parts) = 1 THEN parts[1]
    ELSE parts[1] \o <<" ">> \o JoinSpace(Tail(parts))

\* the attributes of the line for the name written: tvg-id and
\* group-title when they are not empty, tvg-name (the name when the
\* channel has none) and tvg-logo
ExtinfAttrs(channel, name) ==
    SelectSeq(<<
        IF StripStr(channel.tvg_id) = << >> THEN << >>
        ELSE AttrText(<<"t","v","g","-","i","d">>, StripStr(channel.tvg_id)),
        IF FirstTruthy(<<StripStr(channel.tvg_name), name>>) = << >> THEN << >>
        ELSE AttrText(<<"t","v","g","-","n","a","m","e">>, FirstTruthy(<<StripStr(channel.tvg_name), name>>)),
        IF StripStr(channel.group_title) = << >> THEN << >>
        ELSE AttrText(<<"g","r","o","u","p","-","t","i","t","l","e">>, StripStr(channel.group_title)),
        IF _build_local_logo_value(name) = << >> THEN << >>
        ELSE AttrText(<<"t","v","g","-","l","o","g","o">>, _build_local_logo_value(name))>>,
        NonEmpty)

\* _build_extinf_line as text: '#EXTINF:-1 ' + ' '.join(attrs) + ',' + name
ExtinfLineText(attrs, name) ==
    IF attrs # << >>
    THEN <<"#","E","X","T","I","N","F",":","-","1"," ">> \o JoinSpace(attrs) \o <<",">> \o name
    ELSE <<"#","E","X","T","I","N","F",":","-","1",",">> \o name

ExtinfLine(channel) ==
    ExtinfLineText(ExtinfAttrs(channel, ExtinfNameText(channel)), ExtinfNameText(channel))

\* _get_variant_url(channel, variant_index): the url of the variant at
\* that index, None (here the empty string) when the channel has variants
\* but not that one, the url of the channel when it has no variants
_get_variant_url(channel, variant_index) ==
    IF channel.variants # << >>
    THEN (IF 0 <= variant_index /\ variant_index < Len(channel.variants)
          THEN channel.variants[variant_index + 1].url ELSE << >>)
    ELSE channel.url

\* the #KODIPROP lines of build_m3u
KodipropLines(kodiprops) ==
    List([i \in 1..Len(SelectSeq(List([k \in 1..Len(kodiprops) |-> StripStr(kodiprops[k])]), NonEmpty)) |->
        <<"#","K","O","D","I","P","R","O","P",":">> \o SelectSeq(List([k \in 1..Len(kodiprops) |-> StripStr(kodiprops[k])]), NonEmpty)[i]])

\* the lines build_m3u writes for a channel: none when it has no url
ChannelLines(channel, url) ==
    IF url = << >> THEN << >>
    ELSE <<ExtinfLine(channel)>> \o KodipropLines(channel.kodiprops) \o <<url>>

\* build_m3u(channels, url_builder) with the url_builder of build_direct_m3u
build_m3u(channels, variant_index) ==
    JoinLines(<<<<"#","E","X","T","M","3","U">>>> \o
              Flatten(List([i \in 1..Len(channels) |->
                  ChannelLines(channels[i], _get_variant_url(channels[i], variant_index))])))
    \o <<"NL">>

\* build_direct_m3u._clean_channel: the colour tags are taken out of the name
_clean_channel(ch, clean_name) ==
    IF clean_name = << >> THEN ch
    ELSE [ch EXCEPT !.display_name = clean_name, !.name = clean_name]

CleanName(ch) ==
    StripStr(_strip_color_tags(FirstTruthy(<<ch.display_name, ch.name, ch.channel_id>>)))

\* build_direct_m3u(channels, variant_index)
build_direct_m3u(channels, variant_index) ==
    build_m3u(List([i \in 1..Len(channels) |-> _clean_channel(channels[i], CleanName(channels[i]))]),
              variant_index)

\* channels of a catalog
CatalogChannel(display_name, tvg_id, group_title, kodiprops, url, variants) ==
    [channel_id |-> _make_channel_id(display_name), display_name |-> display_name,
     name |-> display_name, tvg_id |-> tvg_id, tvg_name |-> << >>,
     group_title |-> group_title, kodiprops |-> kodiprops, url |-> url,
     variants |-> variants]

ChPlain  == CatalogChannel(<<"M","1">>, <<"m","1",".","h","u">>, <<"H","u","n","g","a","r","y">>, <<<<"p","=","1">>>>, <<"u","1">>, << >>)
ChComma  == CatalogChannel(<<"A",","," ","B">>, << >>, << >>, << >>, <<"u","2">>, << >>)
ChGroup  == CatalogChannel(<<"C">>, << >>, <<"N","e","w","s",","," ","H","U">>, << >>, <<"u","3">>, << >>)
ChNoUrl  == CatalogChannel(<<"D">>, << >>, << >>, << >>, << >>, << >>)
ChTwo    == CatalogChannel(<<"E">>, << >>, << >>, << >>, <<"u","5">>, <<[url |-> <<"u","5">>], [url |-> <<"u","6">>]>>)
ChAccent == CatalogChannel(<<"K","e","t","t","o''">>, << >>, << >>, << >>, <<"u","7">>, << >>)

SampleChannels == {ChPlain, ChComma, ChGroup, ChNoUrl, ChTwo, ChAccent}

\* a catalog has at most MaxChannels channels
MaxChannels == 2
SampleCatalogs == UNION {[1..n -> SampleChannels] : n \in 0..MaxChannels}

InitRoundTrip ==
    /\ catalog = CatFull
    /\ prefer_quality = FALSE
    /\ clock = MinClock
    /\ file = FMissing
    /\ pc = [p \in Procs |-> "idle"]
    /\ play_indices = [p \in Procs |-> EmptyIndices]
    /\ play_meta = [p \in Procs |-> DefaultMeta]
    /\ ret = [p \in Procs |-> NoUrl]
    /\ call = [p \in Procs |-> NoCall]
    /\ last = NoLast
    /\ build = BuildIdle
    /\ sources = SourcesIdle
    /\ load = LoadIdle
    /\ epg = EpgIdle
    /\ streak = NoStreak
    /\ \E channels \in SampleCatalogs :
          m3u = [stage |-> "catalog", channels |-> channels, variant_index |-> 0,
                 text |-> << >>, chans |-> << >>, addon |-> << >>]

\* build_direct_m3u(channels, variant_index) on the catalog
BuildDirectM3u(variant_index) ==
    /\ m3u.stage = "catalog"
    /\ m3u' = [m3u EXCEPT !.stage = "written", !.variant_index = variant_index,
                          !.text = build_direct_m3u(m3u.channels, variant_index)]
    /\ UNCHANGED <<catalog, prefer_quality, clock, file, pc, play_indices,
                   play_meta, ret, call, last, build, sources, load, epg, streak>>

NextRoundTrip ==
    \/ \E variant_index \in {0, 1} : BuildDirectM3u(variant_index)
    \/ ParseM3u

SpecRoundTrip == InitRoundTrip /\ [][NextRoundTrip]_vars

----------------------------------------------------------------------------
(* C24: writing a catalog and parsing it again *)

\* the (display name, url) pairs of the channels that were written, and
\* of the entries parsed
WrittenPairs ==
    {<<m3u.channels[i].display_name, _get_variant_url(m3u.channels[i], m3u.variant_index)>> :
        i \in {j \in 1..Len(m3u.channels) :
                  _get_variant_url(m3u.channels[j], m3u.variant_index) # << >>}}
ParsedPairs == {<<m3u.chans[i].name, m3u.chans[i].url>> : i \in 1..Len(m3u.chans)}

\* a comma in a display name or in a group title of the catalog
HasComma(ch) ==
    FindChar(ch.display_name, ",", 1) > 0 \/ FindChar(ch.group_title, ",", 1) > 0

\* C24: the text written from a catalog, parsed again, gives the
\* (display name, url) pairs of the catalog, for every catalog, also when
\* a display name or an attribute value holds a comma
C24_RoundTrip ==
    m3u.stage = "parsed" => ParsedPairs = WrittenPairs

\* the round trip of the catalogs without a comma in a name or a value
RoundTripWithoutComma ==
    (m3u.stage = "parsed" /\ \A i \in 1..Len(m3u.channels) : ~HasComma(m3u.channels[i]))
        => ParsedPairs = WrittenPairs

\* the catalog with the one channel 'A, B' was written and parsed, and
\* the name that came back is not 'A, B'
C24_CommaNameLost ==
    /\ m3u.stage = "parsed"
    /\ m3u.channels = <<ChComma>>
    /\ Len(m3u.chans) = 1
    /\ m3u.chans[1].url = <<"u","2">>
    /\ m3u.chans[1].name # <<"A",","," ","B">>
    /\ m3u.chans[1].tvg_name = << >>

----------------------------------------------------------------------------
(* epg_manager: the name map of the EPG file and its cache
   (_NAME_MAP_CACHE, _NAME_MAP_MTIME) *)

\* what the EPG file can hold: a text ET.parse rejects, or a document
EpgDocs == {[ok |-> FALSE, xml |-> << >>]} \cup {[ok |-> TRUE, xml |-> xml] : xml \in EpgXmls}

\* the modification time of the file goes from 1 to MaxMtime
MaxMtime == 3

\* {}
EmptyNameMap == Dict([key \in {} |-> << >>])

\* the module as imported and an EPG file written before
EpgStart(doc) ==
    [stage |-> "ready", exists |-> TRUE, mtime |-> 1, doc |-> doc,
     cache |-> EmptyNameMap, cache_mtime |-> 0,
     looked |-> FALSE, repeat |-> FALSE, parsed |-> FALSE, ret |-> EmptyNameMap]

\* _build_name_map_from_merged_epg() on the file and the cache e: the
\* cache, its time, the map returned, and whether ET.parse was called
CachedNameMap(m, e) ==
    IF ~e.exists
    THEN [cache |-> EmptyNameMap, cache_mtime |-> 0, ret |-> EmptyNameMap, parsed |-> FALSE]
    ELSE IF DOMAIN e.cache # {} /\ e.cache_mtime = e.mtime
    THEN [cache |-> e.cache, cache_mtime |-> e.cache_mtime, ret |-> e.cache, parsed |-> FALSE]
    ELSE IF ~e.doc.ok
    THEN [cache |-> EmptyNameMap, cache_mtime |-> e.mtime, ret |-> EmptyNameMap, parsed |-> TRUE]
    ELSE [cache |-> _build_name_map_from_merged_epg(m, e.doc.xml), cache_mtime |-> e.mtime,
          ret |-> _build_name_map_from_merged_epg(m, e.doc.xml), parsed |-> TRUE]

InitEpg ==
    /\ catalog = CatFull
    /\ prefer_quality = FALSE
    /\ clock = MinClock
    /\ file = FMissing
    /\ pc = [p \in Procs |-> "idle"]
    /\ play_indices = [p \in Procs |-> EmptyIndices]
    /\ play_meta = [p \in Procs |-> DefaultMeta]
    /\ ret = [p \in Procs |-> NoUrl]
    /\ call = [p \in Procs |-> NoCall]
    /\ last = NoLast
    /\ build = BuildIdle
    /\ sources = SourcesIdle
    /\ load = LoadIdle
    /\ m3u = M3uIdle
    /\ streak = NoStreak
    /\ \E doc \in EpgDocs : epg = EpgStart(doc)

EpgFrame ==
    UNCHANGED <<catalog, prefer_quality, clock, file, pc, play_indices,
                play_meta, ret, call, last, build, sources, load, m3u, streak>>

\* a call of _build_name_map_from_merged_epg(); repeat: the file was
\* looked up before and has not been written or removed since
LookupNameMap(m) ==
    /\ epg.stage = "ready"
    /\ epg' = [epg EXCEPT
           !.cache = CachedNameMap(m, epg).cache,
           !.cache_mtime = CachedNameMap(m, epg).cache_mtime,
           !.ret = CachedNameMap(m, epg).ret,
           !.parsed = CachedNameMap(m, epg).parsed,
           !.repeat = epg.looked /\ epg.exists,
           !.looked = epg.exists]
    /\ EpgFrame

\* another run of the add-on, or the user, writes the EPG file: the
\* modification time moves on, the cache of this run is not touched
WriteEpgFile(doc) ==
    /\ epg.stage = "ready"
    /\ epg.mtime < MaxMtime
    /\ epg' = [epg EXCEPT !.exists = TRUE, !.doc = doc, !.mtime = @ + 1,
                          !.looked = FALSE]
    /\ EpgFrame

\* build_merged_epg / ensure_base_epg_fresh of this run write the file
\* and empty the cache
BuildMergedEpg(doc) ==
    /\ epg.stage = "ready"
    /\ epg.mtime < MaxMtime
    /\ epg' = [epg EXCEPT !.exists = TRUE, !.doc = doc, !.mtime = @ + 1,
                          !.looked = FALSE,
                          !.cache = EmptyNameMap, !.cache_mtime = 0]
    /\ EpgFrame

\* the EPG file is removed
RemoveEpgFile ==
    /\ epg.stage = "ready"
    /\ epg.exists
    /\ epg' = [epg EXCEPT !.exists = FALSE, !.looked = FALSE]
    /\ EpgFrame

NextEpg ==
    \/ LookupNameMap(Modules)
    \/ \E doc \in EpgDocs : WriteEpgFile(doc)
    \/ \E doc \in EpgDocs : BuildMergedEpg(doc)
    \/ RemoveEpgFile

SpecEpg == InitEpg /\ [][NextEpg]_vars

----------------------------------------------------------------------------
(* C25: the name map is parsed once per modification time *)

\* C25: while the modification time of the EPG file is unchanged, every
\* lookup after the first returns the cached map and does not parse the
\* file again, whatever the file holds (also when it gives no name or
\* cannot be parsed)
C25_ParsedOncePerMtime ==
    (epg.stage = "ready" /\ epg.repeat) => (~epg.parsed /\ epg.ret = epg.cache)

\* the same for the files that give at least one name
ParsedOncePerMtimeWithNames ==
    (epg.stage = "ready" /\ epg.repeat /\ DOMAIN epg.ret # {}) => ~epg.parsed

\* a file that cannot be parsed was looked up twice in a row and was
\* parsed at the second lookup, although the cache holds its time
C25_ParsedAgain ==
    /\ epg.stage = "ready"
    /\ epg.exists /\ ~epg.doc.ok
    /\ epg.repeat
    /\ epg.parsed
    /\ epg.cache_mtime = epg.mtime

----------------------------------------------------------------------------
(* Failover: runs of get_play_url calls for one channel, each made by the  *)
(* running coordinator or by a new one, with a clock that can step back    *)

\* the state file of an earlier run
FailoverFiles ==
    { FMissing,
      FJson(NewFormat(Obj2("rtl", JInt(1), "tv2", JInt(0)),
                      MetaObj(JStr("rtl"), JFloat(MinClock - 1)))) }

\* the channels asked for
FailoverIds == {"rtl", "tv2"}

\* the URLs of at most MaxStreak calls of a run are kept
MaxStreak == 4

\* the last MaxStreak elements of s
Window(s) == IF Len(s) > MaxStreak THEN SubSeq(s, Len(s) - MaxStreak + 1, Len(s)) ELSE s

\* this call for cid comes at or after the previous call, for the same
\* channel and less than 20 seconds after it
ContinuesStreak(cid) ==
    /\ streak.urls # << >>
    /\ streak.cid = cid
    /\ clock >= streak.now
    /\ clock - streak.now < QuickRetryWindow

\* the coordinator holds what the previous call left: its index for cid,
\* the channel and the time
HoldsStored(p, cid) ==
    /\ last.op = "auto" /\ last.cid = cid
    /\ cid \in DOMAIN play_indices[p]
    /\ play_indices[p][cid] = last.index
    /\ play_meta[p].last_channel = cid
    /\ play_meta[p].last_time = last.now

\* the run of calls after a call for cid that returned url
Tracked(p, cid, url) ==
    IF ContinuesStreak(cid)
    THEN [cid |-> cid, now |-> clock, urls |-> Window(streak.urls \o <<url>>),
          from_stored |-> streak.from_stored /\ HoldsStored(p, cid)]
    ELSE [cid |-> cid, now |-> clock, urls |-> <<url>>, from_stored |-> TRUE]

InitFailover ==
    /\ Init
    /\ file \in FailoverFiles

\* get_play_url(cid), the URL it returns noted in the run
FailoverCall(p, cid) ==
    /\ GetPlayUrlStep(p, cid)
    /\ streak' = Tracked(p, cid, ret'[p])
    /\ UNCHANGED <<sources, load, m3u, epg>>

\* the system clock is set back (datetime.utcnow() is the wall clock)
ClockStepsBack ==
    /\ \E t \in Instants : t < clock /\ clock' = t
    /\ UNCHANGED <<aux, catalog, prefer_quality, build, file, pc, play_indices, play_meta,
                   ret, call, last>>

NextFailover ==
    \/ Start(Main)
    \/ Exit(Main)
    \/ \E cid \in FailoverIds : FailoverCall(Main, cid)
    \/ WriteClose(Main)
    \/ WriteFail(Main)
    \/ Tick
    \/ ClockStepsBack

SpecFailover == InitFailover /\ [][NextFailover]_vars

----------------------------------------------------------------------------
(* C26: wrap-around failover *)

\* in the run of calls, calls less than n apart returned different URLs and
\* calls n apart the same URL, n the number of variants of the channel
RunGoesRound ==
    LET n == Len(catalog[streak.cid])
        w == streak.urls
    IN  \A i \in 1..Len(w) : \A j \in (i + 1)..Len(w) :
            /\ (j - i < n) => w[i] # w[j]
            /\ (j - i = n) => w[i] = w[j]

----------------------------------------------------------------------------
(* C27: the quick retry when the clock stepped back *)

\* the index the last get_play_url call of Main found stored, in range
FoundIndex == IF call[Main].stored < 0 \/ call[Main].stored >= call[Main].n THEN 0 ELSE call[Main].stored

\* the last call of Main was a get_play_url for the channel of the call
\* before it, made when the recorded last_time was later than now
CalledAfterStepBack ==
    /\ call[Main].op = "auto" /\ call[Main].saved
    /\ call[Main].same
    /\ call[Main].gap = "neg"

\* C27: when the recorded last_time is later than now, get_play_url does
\* not take the call for a quick retry: the index is not advanced
C27_NoAdvanceWhenClockBack ==
    CalledAfterStepBack => last.index = FoundIndex

\* a call for "rtl" at a time before the recorded last_time moved the
\* index on
C27_AdvancedAfterStepBack ==
    /\ CalledAfterStepBack
    /\ call[Main].cid = "rtl"
    /\ last.now < MaxClock
    /\ last.index # FoundIndex

----------------------------------------------------------------------------
(* Two plugin invocations: both construct the coordinator (which loads   *)
(* the state file), then each makes one get_play_url call; every write of  *)
(* the state file succeeds                                                 *)

\* every process has constructed its coordinator
AllLoaded == \A q \in Procs : pc[q] # "idle"

NextLostUpdate ==
    \/ \E p \in Procs : Start(p)
    \/ \E p \in Procs, cid \in FailoverIds : AllLoaded /\ FirstCall(p) /\ GetPlayUrl(p, cid)
    \/ \E p \in Procs : WriteClose(p)
    \/ Tick

SpecLostUpdate == InitOverlap /\ [][NextLostUpdate]_vars

----------------------------------------------------------------------------
(* C28: no update is lost when two invocations overlap *)

\* p made its get_play_url call and its write of the state file is done
HasWritten(p) ==
    /\ pc[p] = "ready"
    /\ call[p].op = "auto" /\ call[p].saved

\* both processes have written, each after a call for another channel
BothWritten ==
    /\ \A p \in Procs : HasWritten(p)
    /\ call["p1"].cid # call["p2"].cid

\* the state file holds the index p chose for its channel
FileHoldsIndexOf(p) ==
    /\ file.k = "json"
    /\ call[p].cid \in DOMAIN _load_play_state(file).indices
    /\ _load_play_state(file).indices[call[p].cid] = play_indices[p][call[p].cid]

\* C28: after two processes have each loaded the state file, made one
\* get_play_url call for a different channel and written, the state file
\* holds the index each of them chose for its channel
C28_NoLostUpdate ==
    BothWritten => \A p \in Procs : FileHoldsIndexOf(p)

\* both have written and the file is a JSON document that has another
\* index for the channel of one of them than the one it chose
C28_UpdateLost ==
    /\ BothWritten
    /\ file.k = "json"
    /\ \E p \in Procs :
        /\ call[p].cid \in DOMAIN _load_play_state(file).indices
        /\ _load_play_state(file).indices[call[p].cid] # play_indices[p][call[p].cid]

----------------------------------------------------------------------------
(* C29: channel ids of the catalog, checked under SpecBuild *)

\* the positions of the channels get_channel_by_id(channel_id) compares
\* equal to channel_id
ChannelsWithId(channels, channel_id) ==
    {i \in 1..Len(channels) : channels[i].channel_id = channel_id}

\* C29: after a rebuild the channel_id of every channel of the catalog is
\* its display name trimmed and lower-cased, channels of different group
\* keys (and so any two channels) have different channel_ids, and a
\* channel_id identifies at most one channel
C29_ChannelIdsDistinct ==
    build.stage \in {"built", "written"} =>
        /\ \A i \in 1..Len(build.channels) :
              /\ build.channels[i].channel_id = LowerStr(StripStr(build.channels[i].display_name))
              /\ Cardinality(ChannelsWithId(build.channels, build.channels[i].channel_id)) = 1
        /\ \A i, j \in 1..Len(build.channels) :
              (i # j) =>
                 /\ build.channels[i].group_key # build.channels[j].group_key
                 /\ build.channels[i].channel_id # build.channels[j].channel_id

\* a catalog of three channels was built, with three ids, and the id of
\* the first is not its display name as written
C29_ThreeChannels ==
    /\ build.stage = "built"
    /\ Len(build.channels) = 3
    /\ Cardinality({build.channels[i].channel_id : i \in 1..3}) = 3
    /\ build.channels[1].channel_id # build.channels[1].display_name

----------------------------------------------------------------------------
(* The source manager: add_source, remove_source and toggle_source called *)
(* from the GUI, starting without sources.json                             *)

\* what the user enters: a url, with a label or without
SourceInputs ==
    { [url |-> UrlA, label |-> << >>],
      [url |-> UrlB, label |-> <<"L">>],
      [url |-> PathF, label |-> << >>] }

\* the lists of the model hold at most MaxSources entries each
MaxSources == 2

\* the indices the GUI can pass for a list of n entries
SourceIndices == -1..MaxSources

InitSources ==
    /\ Init
    /\ file = FMissing
    /\ prefer_quality = FALSE

SourcesFrame ==
    UNCHANGED <<catalog, prefer_quality, clock, file, pc, play_indices,
                play_meta, ret, call, last, build, load, m3u, epg, streak>>

\* the state after a call op whose result on the loaded data is r
AfterSourceCall(s, op, refused, r, outcome) ==
    [save_sources(s, r, outcome) EXCEPT
        !.call = [op |-> op, refused |-> refused,
                  unchanged |-> load_sources(save_sources(s, r, outcome)) = load_sources(s)]]

\* add_source(source_type, url, label)
AddSource(source_type, url, label, outcome) ==
    /\ \/ Len(load_sources(sources)[source_type]) < MaxSources
       \/ \E i \in 1..Len(load_sources(sources)[source_type]) :
             load_sources(sources)[source_type][i].url = url
    /\ sources' = AfterSourceCall(sources, "add",
           \E i \in 1..Len(load_sources(sources)[source_type]) :
               load_sources(sources)[source_type][i].url = url,
           add_source(load_sources(sources), source_type, url, label), outcome)
    /\ SourcesFrame

\* remove_source(source_type, index)
RemoveSource(source_type, index, outcome) ==
    /\ sources' = AfterSourceCall(sources, "remove",
           index < 0 \/ index >= Len(load_sources(sources)[source_type]),
           remove_source(load_sources(sources), source_type, index), outcome)
    /\ SourcesFrame

\* toggle_source(source_type, index)
ToggleSource(source_type, index, outcome) ==
    /\ sources' = AfterSourceCall(sources, "toggle",
           index < 0 \/ index >= Len(load_sources(sources)[source_type]),
           toggle_source(load_sources(sources), source_type, index), outcome)
    /\ SourcesFrame

NextSources ==
    \/ \E source_type \in SourceTypes, input \in SourceInputs, outcome \in WriteOutcomes :
          AddSource(source_type, input.url, input.label, outcome)
    \/ \E source_type \in SourceTypes, index \in SourceIndices, outcome \in WriteOutcomes :
          RemoveSource(source_type, index, outcome)
    \/ \E source_type \in SourceTypes, index \in SourceIndices, outcome \in WriteOutcomes :
          ToggleSource(source_type, index, outcome)

SpecSources == InitSources /\ [][NextSources]_vars

----------------------------------------------------------------------------
(* C30: the urls of the stored sources *)

\* no two entries of lst have the same url
UrlsDistinct(lst) ==
    \A i, j \in 1..Len(lst) : (i # j) => lst[i].url # lst[j].url

\* C30: after any sequence of add_source, remove_source and toggle_source
\* calls that starts without sources, no two entries of a source type have
\* the same url; an add_source with a url that is in the list, and a
\* remove_source or toggle_source with an index outside the list, return
\* False and leave the stored lists as they were
C30_NoDuplicateUrls ==
    /\ \A source_type \in SourceTypes : UrlsDistinct(load_sources(sources)[source_type])
    /\ sources.call.refused => (sources.ret = "False" /\ sources.call.unchanged)

\* add_source was called with a url of the list, which holds the most
\* entries it can, and was refused
C30_AddRefused ==
    /\ sources.call.op = "add" /\ sources.call.refused
    /\ sources.ret = "False"
    /\ Len(sources.m3u) = MaxSources
    /\ \E i \in 1..Len(sources.m3u) : ~sources.m3u[i].enabled

====
